---------------------------- MODULE Spec2Model ----------------------------
(***************************************************************************)
(* State-machine model of tui-map: the disaster simulation of src/app.rs,  *)
(* the spatial indexes of src/map/spatial.rs, the static-layer render      *)
(* cache and the land grid of src/map/renderer.rs, the camera of           *)
(* src/map/projection.rs and src/map/globe.rs, and the braille canvas of   *)
(* src/braille/canvas.rs.                                                  *)
(*                                                                         *)
(* Number representation.  The program computes in f64; the model uses     *)
(* fixed point integers:                                                   *)
(*   longitude, latitude : centi-degrees  (1 unit = 0.01 degree)           *)
(*   distances, radii    : whole kilometres                                *)
(*   zoom                : thousandths    (1000 = zoom 1.0)                *)
(*   ratios              : per mille                                       *)
(* Values produced by the pseudo-random hash (rand_simple, hash3) are      *)
(* inputs chosen with \E from small sets: the hash is a pure function of   *)
(* attempt counters, coordinate bits and the frame, so every value the     *)
(* model picks is one the code can compute for some position and frame.    *)
(* The fire collection is a sequence of groups of identical fires          *)
(* [lon, lat, intensity, n]; Vec::len() is the sum of the group sizes.     *)
(***************************************************************************)
EXTENDS Integers, Sequences, FiniteSets, TLC

VARIABLES
    \* App (src/app.rs)
    projection, frame, last_nuke_frame, explosions, fires, fallout, cities,
    casualties, fire_grid_fine, land_grid,
    \* MapRenderer (src/map/renderer.rs): settings, the cache slot, the last
    \* render call and the number of render calls
    settings, cache, rendered, renders,
    \* a SpatialGrid of points with its last query and result
    sgrid, sg_query, sg_result,
    \* a FeatureGrid with the boxes it was built from, its last query and result
    fg_boxes, fgrid, fg_query, fg_result,
    \* a LandGrid built from polygons with its last lookup and result
    lg_polys, lgrid, lg_query, lg_result,
    \* the array reads and writes of the last grid call: the function called
    \* and the pairs <<index, array length>> it used
    ix_call, ix_used,
    \* the camera under its own operations: the number of operations so far,
    \* the last operation with the camera before it, and the last
    \* project / unproject round trip
    cam_steps, cam_op, cam_rt,
    \* a BrailleCanvas and the last set_pixel call with the canvas before it
    canvas, cv_op,
    \* a GlobeViewport with its whole orientation, the cache slot with the
    \* view its rasters were drawn for, and the last render call
    gl_view, gl_slot, gl_last

simRest == <<frame, last_nuke_frame, explosions, fires, fallout, cities,
             casualties, fire_grid_fine, land_grid>>

simVars == <<projection, simRest>>

cacheVars == <<settings, cache, rendered, renders>>

gridVars == <<sgrid, sg_query, sg_result, fg_boxes, fgrid, fg_query, fg_result>>

landVars == <<lg_polys, lgrid, lg_query, lg_result>>

camVars == <<cam_steps, cam_op, cam_rt>>

canvasVars == <<canvas, cv_op>>

orientVars == <<gl_view, gl_slot, gl_last>>

probeVars == <<landVars, ix_call, ix_used, camVars, canvasVars, orientVars>>

vars == <<simVars, cacheVars, gridVars, probeVars>>

---------------------------------------------------------------------------
(* Arithmetic helpers *)

Min(a, b) == IF a < b THEN a ELSE b

Max(a, b) == IF a > b THEN a ELSE b

Abs(a) == IF a < 0 THEN -a ELSE a

\* u64 / u8 / u16 saturating_sub
SatSub(a, b) == IF a > b THEN a - b ELSE 0

\* floor(a * num / den) for a >= 0 without leaving 32 bits
MulDiv(a, num, den) == (a \div den) * num + ((a % den) * num) \div den

\* f64 -> integer cast of "as i64" / "as usize": truncation toward zero
Trunc(x, q) == IF x >= 0 THEN x \div q ELSE -((-x) \div q)

RECURSIVE SqrtIter(_, _, _)
SqrtIter(n, lo, hi) ==
    IF lo >= hi THEN lo
    ELSE LET mid == (lo + hi + 1) \div 2
         IN IF mid * mid <= n THEN SqrtIter(n, mid, hi)
            ELSE SqrtIter(n, lo, mid - 1)

\* floor(sqrt(n)), 0 <= n < 2^31
ISqrt(n) == SqrtIter(n, 0, Min(n, 46340))

\* cos of a whole number of degrees 0..90, per mille
CosTable == <<1000, 1000, 999, 999, 998, 996, 995, 993, 990, 988, 985, 982,
    978, 974, 970, 966, 961, 956, 951, 946, 940, 934, 927, 921, 914, 906, 899,
    891, 883, 875, 866, 857, 848, 839, 829, 819, 809, 799, 788, 777, 766, 755,
    743, 731, 719, 707, 695, 682, 669, 656, 643, 629, 616, 602, 588, 574, 559,
    545, 530, 515, 500, 485, 469, 454, 438, 423, 407, 391, 375, 358, 342, 326,
    309, 292, 276, 259, 242, 225, 208, 191, 174, 156, 139, 122, 105, 87, 70,
    52, 35, 17, 0>>

\* cos(lat), lat in centi-degrees, per mille
CosPm(lat) == CosTable[Min(Abs(lat) \div 100, 90) + 1]

---------------------------------------------------------------------------
(* src/geo.rs *)

\* (lon + 180).rem_euclid(360)
normalize_lon(lon) == (lon + 18000) % 36000

\* a latitude shift without the clamp
normalize_lat_unclamped(lat) == lat + 9000

\* (lat + 90).clamp(0, 179.999)
normalize_lat(lat) == Max(0, Min(lat + 9000, 17999))

---------------------------------------------------------------------------
(* src/map/spatial.rs: SpatialGrid (point grid, used for the cities) *)

\* to_cell: ((lon / cell_size).floor(), (lat / cell_size).floor())
to_cell(lon, lat, cell_size) == <<lon \div cell_size, lat \div cell_size>>

\* HashMap lookup: the index list of a cell, empty when the key is absent
CellGet(cells, cell) == IF cell \in DOMAIN cells THEN cells[cell] ELSE <<>>

\* SpatialGrid::insert: push the item, append its index to its cell.
\* A grid is [cells, items, cell_size]; indices are 0-based as in the code.
sg_insert(grid, lon, lat, item) ==
    LET idx == Len(grid.items)
        cell == to_cell(lon, lat, grid.cell_size)
        old == CellGet(grid.cells, cell)
    IN [grid EXCEPT
          !.items = Append(grid.items, item),
          !.cells = [c \in DOMAIN grid.cells \cup {cell} |->
                        IF c = cell THEN Append(old, idx) ELSE grid.cells[c]]]

RECURSIVE CollectCells(_, _, _, _, _, _)
\* the two nested loops over cell rows y0..y1 and columns x0..x1
CollectCells(cells, x0, x1, y0, y1, x) ==
    IF y0 > y1 THEN <<>>
    ELSE IF x > x1 THEN CollectCells(cells, x0, x1, y0 + 1, y1, x0)
    ELSE CellGet(cells, <<x, y0>>) \o CollectCells(cells, x0, x1, y0, y1, x + 1)

\* a cell radius rounded down
cell_radius_floor(rnum, rden, cell_size) == rnum \div (rden * cell_size)

\* (radius_degrees / cell_size).ceil() as i32.  The radius is the rational
\* rnum / rden, in the unit of the coordinates.
cell_radius_of(rnum, rden, cell_size) == -((-rnum) \div (rden * cell_size))

\* SpatialGrid::query_radius
query_radius(grid, lon, lat, rnum, rden) ==
    LET c == to_cell(lon, lat, grid.cell_size)
        cell_radius == cell_radius_of(rnum, rden, grid.cell_size)
    IN CollectCells(grid.cells, c[1] - cell_radius, c[1] + cell_radius,
                    c[2] - cell_radius, c[2] + cell_radius, c[1] - cell_radius)

\* SpatialGrid::query_bbox
query_bbox(grid, min_lon, min_lat, max_lon, max_lat) ==
    LET lo == to_cell(min_lon, min_lat, grid.cell_size)
        hi == to_cell(max_lon, max_lat, grid.cell_size)
    IN CollectCells(grid.cells, lo[1], hi[1], lo[2], hi[2], lo[1])

SeqToSet(s) == {s[i] : i \in DOMAIN s}

---------------------------------------------------------------------------
(* src/map/renderer.rs: LandGrid *)

LandGrid_WIDTH == 3600

LandGrid_HEIGHT == 1800

\* LandGrid::RESOLUTION = 0.1 degree, in centi-degrees
LandGrid_RESOLUTION == 10

LandGrid_TOTAL_BITS == LandGrid_WIDTH * LandGrid_HEIGHT

\* LandGrid::get_bit on the bitmap kept as the set of the indices of its 1 bits
get_bit(bitmap, idx) == idx < LandGrid_TOTAL_BITS /\ idx \in bitmap

\* the land_count of build_coarse for one coarse cell
land_count(bitmap, coarse_lat, coarse_lon) ==
    Cardinality({p \in (0..9) \X (0..9) :
        get_bit(bitmap, (coarse_lat * 10 + p[1]) * LandGrid_WIDTH
                        + (coarse_lon * 10 + p[2]))})

\* a coarse tier that calls a cell all land once half of it is
build_coarse_majority(bitmap) ==
    LET touched == {((b \div LandGrid_WIDTH) \div 10) * 360
                    + ((b % LandGrid_WIDTH) \div 10) : b \in bitmap}
    IN [c \in touched |->
          IF land_count(bitmap, c \div 360, c % 360) >= 50 THEN 2 ELSE 1]

\* LandGrid::build_coarse: 0 = all water, 1 = mixed, 2 = all land.  The tier
\* is kept sparse: a coarse cell that is absent holds 0.
build_coarse(bitmap) ==
    LET touched == {((b \div LandGrid_WIDTH) \div 10) * 360
                    + ((b % LandGrid_WIDTH) \div 10) : b \in bitmap}
    IN [c \in touched |->
          IF land_count(bitmap, c \div 360, c % 360) = 100 THEN 2 ELSE 1]

\* LandGrid::is_land
is_land(grid, lon, lat) ==
    LET coarse_lon == normalize_lon(lon) \div 100
        coarse_lat == normalize_lat(lat) \div 100
        coarse_idx == coarse_lat * 360 + Min(coarse_lon, 359)
        tier == IF coarse_idx \in DOMAIN grid.coarse
                THEN grid.coarse[coarse_idx] ELSE 0
        lon_idx == normalize_lon(lon) \div LandGrid_RESOLUTION
        lat_idx == normalize_lat(lat) \div LandGrid_RESOLUTION
        idx == Min(lat_idx, LandGrid_HEIGHT - 1) * LandGrid_WIDTH
               + Min(lon_idx, LandGrid_WIDTH - 1)
    IN CASE tier = 0 -> FALSE
         [] tier = 2 -> TRUE
         [] OTHER -> get_bit(grid.bitmap, idx)

\* MapRenderer::is_on_land: without a grid every point counts as land
is_on_land(lg, lon, lat) == IF lg.built THEN is_land(lg, lon, lat) ELSE TRUE

\* Land data of the model: the 1-degree cell 51N..52N, 1W..0 is all land and
\* the west half of the cell east of it (0..0.5E) is land; the rest is sea.
SampleBitmap ==
    {lat_idx * LandGrid_WIDTH + lon_idx :
        lat_idx \in 1410..1419, lon_idx \in 1790..1804}

\* MapRenderer::build_land_grid result, and MapRenderer::new's land_grid: None
BuiltLandGrid ==
    [built |-> TRUE, bitmap |-> SampleBitmap, coarse |-> build_coarse(SampleBitmap)]

NoLandGrid == [built |-> FALSE]

---------------------------------------------------------------------------
(* src/map/projection.rs, src/map/globe.rs: the camera as far as the       *)
(* simulation and the render cache read it.  A Mercator projection is      *)
(* [kind, center_lon, center_lat, zoom, width, height] and so is a globe:  *)
(* the globe's zoom field is its radius / (width * 0.35), from which the   *)
(* radius (in tenths of a pixel) is recomputed.  The center is in          *)
(* ten-thousandths of a degree, the zoom in thousandths.                   *)

\* terminal size handed to App::new (columns, rows)
TermCols == 80

TermRows == 24

\* App::new: the braille pixel size inside the border and the status bar,
\* and Viewport::world: center (0, 20), zoom 1.0
InitProjection ==
    [kind |-> "Mercator", center_lon |-> 0, center_lat |-> 200000, zoom |-> 1000,
     width |-> SatSub(TermCols, 2) * 2, height |-> SatSub(TermRows, 3) * 4]

\* Viewport::zoom_in: (zoom * 1.5).min(100.0)
vp_zoom_in(vp) == [vp EXCEPT !.zoom = Min((vp.zoom * 3) \div 2, 100000)]

\* Viewport::zoom_out: (zoom / 1.5).max(0.5)
vp_zoom_out(vp) == [vp EXCEPT !.zoom = Max((vp.zoom * 2) \div 3, 500)]

\* the globe's radius in tenths of a pixel: width * 0.35 * zoom
globe_radius(g) == (g.width * 35 * g.zoom) \div 10000

\* GlobeViewport::zoom_in: (radius * 1.5).min(width * 35.0), that is zoom 100
globe_zoom_in(g) == [g EXCEPT !.zoom = Min((g.zoom * 3) \div 2, 100000)]

\* GlobeViewport::zoom_out: (radius / 1.5).max(width * 0.35), that is zoom 1
globe_zoom_out(g) == [g EXCEPT !.zoom = Max((g.zoom * 2) \div 3, 1000)]

\* GlobeViewport::effective_zoom: radius / (width * 0.35)
globe_effective_zoom(g) == g.zoom

\* GlobeViewport::from_mercator: radius = width * 0.35 * zoom, same center
from_mercator(vp) == [vp EXCEPT !.kind = "Globe"]

\* GlobeViewport::to_mercator: zoom = effective_zoom(), same center
to_mercator(g) == [g EXCEPT !.kind = "Mercator", !.zoom = globe_effective_zoom(g)]

\* GlobeViewport::unproject returns None: r2 > 1.0, the pixel is outside the
\* sphere disk
globe_outside_disk(g, px, py) ==
    LET dx == px * 10 - g.width * 5
        dy == py * 10 - g.height * 5
    IN dx * dx + dy * dy > globe_radius(g) * globe_radius(g)

\* Projection::effective_zoom
effective_zoom(p) == IF p.kind = "Globe" THEN globe_effective_zoom(p) ELSE p.zoom

\* Projection::zoom_in / zoom_out / toggle
proj_zoom_in(p) == IF p.kind = "Globe" THEN globe_zoom_in(p) ELSE vp_zoom_in(p)

proj_zoom_out(p) == IF p.kind = "Globe" THEN globe_zoom_out(p) ELSE vp_zoom_out(p)

proj_toggle(p) == IF p.kind = "Globe" THEN to_mercator(p) ELSE from_mercator(p)

\* Geographic points a click can resolve to.  The inverse trigonometry of
\* unproject is not computed: the point under the pixel is one of these.
GeoLondon == <<-10, 5150>>

GeoChannel == <<-10, 4920>>

GeoAtlantic == <<-3000, 4000>>

\* 0.20 E, 51.50 N: 21 km east of London's center, outside its footprint and
\* in the fine fire-grid cell next to London's
GeoEastLondon == <<20, 5150>>

\* 10.00 E, 51.50 N: on London's latitude, in the second city-grid cell east
\* of London's
GeoGermany == <<1000, 5150>>

\* Projection::unproject for a pixel whose geographic point is "point".
\* Mercator always yields the point; the globe yields None outside its disk.
proj_unproject(p, px, py, point) ==
    IF p.kind = "Globe" /\ globe_outside_disk(p, px, py)
    THEN [some |-> FALSE]
    ELSE [some |-> TRUE, lon |-> point[1], lat |-> point[2]]

---------------------------------------------------------------------------
(* src/map/renderer.rs: cities;  src/app.rs: distances and blast damage *)

\* city_radius_from_population, in whole kilometres (the code's lower limit
\* of 0.5 km is 1 here)
city_radius_from_population(population) ==
    IF population = 0 THEN 0
    ELSE LET density == IF population > 10000000 THEN 5000
                        ELSE IF population > 1000000 THEN 8000
                        ELSE IF population > 100000 THEN 10000
                        ELSE 12000
             area_km2 == population \div density
         IN Max(ISqrt((area_km2 * 113) \div 355), 1)

\* the City that MapRenderer::add_city inserts
new_city(lon, lat, population) ==
    [lon |-> lon, lat |-> lat, population |-> population,
     original_population |-> population,
     radius_km |-> city_radius_from_population(population)]

\* MapRenderer::add_city
add_city(grid, lon, lat, population) ==
    sg_insert(grid, lon, lat, new_city(lon, lat, population))

\* MapRenderer::new: city_grid = SpatialGrid::new(10.0), then the cities of
\* data::generate_simple_world that the model keeps: London and Paris
CityGrid ==
    add_city(add_city([cells |-> <<>>, items |-> <<>>, cell_size |-> 1000],
                      -10, 5150, 9000000),
             230, 4890, 11000000)

\* the index structure of the city grid never changes after loading; only the
\* items (the variable cities) are mutated in place
city_grid(cs) == [CityGrid EXCEPT !.items = cs]

\* fast_distance_km: equirectangular distance, R = 6371 km
fast_distance_km(lon1, lat1, lon2, lat2) ==
    LET lat_avg == (lat1 + lat2) \div 2
        dx == (((Abs(lon2 - lon1) * CosPm(lat_avg)) \div 1000) * 11119) \div 10000
        dy == (Abs(lat2 - lat1) * 11119) \div 10000
    IN ISqrt(dx * dx + dy * dy)

\* a "killed" that takes the partial-overlap formula for every city in reach
blast_killed_partial(city, center_dist, radius_km) ==
    LET normalized_dist == ((center_dist - city.radius_km) * 1000) \div radius_km
        damage_ratio == Max(1000 - (normalized_dist * normalized_dist) \div 1000, 0)
        size_factor == Min(city.radius_km * 100, 2000)
    IN MulDiv(city.population, (damage_ratio * 7 * size_factor) \div 10000, 1000)

\* the "killed" of apply_blast_damage for one city in reach
blast_killed(city, center_dist, radius_km) ==
    IF center_dist < city.radius_km
    THEN city.population
    ELSE IF center_dist * 10 < radius_km * 3
    THEN LET q == (center_dist * 10000) \div (radius_km * 3)
             damage_ratio == 1000 - (q * q) \div 1000
         IN MulDiv(city.population, Max(damage_ratio, 800), 1000)
    ELSE LET normalized_dist == ((center_dist - city.radius_km) * 1000) \div radius_km
             damage_ratio == Max(1000 - (normalized_dist * normalized_dist) \div 1000, 0)
             size_factor == Min(city.radius_km * 100, 2000)
         IN MulDiv(city.population, (damage_ratio * 7 * size_factor) \div 10000, 1000)

\* a subtraction that does not saturate
pop_sub_unsaturated(population, killed) == population - killed

\* u64 subtraction used when damage is taken off a population
pop_sub(population, killed) == SatSub(population, killed)

RECURSIVE blast_loop(_, _, _, _, _, _)
\* the loop of apply_blast_damage over the candidate indices; st is
\* [cities, casualties]
blast_loop(st, cand, lon, lat, radius_km, k) ==
    IF k > Len(cand) THEN st
    ELSE LET idx == cand[k]
             city == st.cities[idx + 1]
             center_dist == fast_distance_km(lon, lat, city.lon, city.lat)
             hit == /\ idx < Len(st.cities)
                    /\ city.population # 0
                    /\ center_dist < radius_km + city.radius_km
             killed == blast_killed(city, center_dist, radius_km)
             next == IF hit
                     THEN [cities |-> [st.cities EXCEPT ![idx + 1].population =
                                          pop_sub(city.population, killed)],
                           casualties |-> st.casualties + killed]
                     ELSE st
         IN blast_loop(next, cand, lon, lat, radius_km, k + 1)

\* App::apply_blast_damage: query radius (radius_km + 50) / 111 degrees
apply_blast_damage(cs, cas, lon, lat, radius_km) ==
    LET cand == query_radius(city_grid(cs), lon, lat, (radius_km + 50) * 100, 111)
    IN blast_loop([cities |-> cs, casualties |-> cas], cand, lon, lat, radius_km, 1)

---------------------------------------------------------------------------
(* src/app.rs: App::launch_nuke.  The application state is the record      *)
(* [projection, frame, last_nuke_frame, explosions, fires, fallout,        *)
(* cities, casualties, fire_grid_fine, land_grid].  fires is a sequence of *)
(* groups [lon, lat, intensity, n]: n consecutive entries of the Vec with  *)
(* the same position and intensity.                                        *)

NUKE_COOLDOWN_FRAMES == 15

\* number of entries of the fires Vec
RECURSIVE fires_len(_)
fires_len(fs) == IF fs = <<>> THEN 0 ELSE Head(fs).n + fires_len(Tail(fs))

\* a trigger that never waits
cooldown_never(fr, last) == FALSE

\* a cooldown of 10 frames
cooldown_active_10(fr, last) == fr < last + 10

\* the cooldown test at the top of launch_nuke
cooldown_active(fr, last) == fr < last + NUKE_COOLDOWN_FRAMES

\* a return that has already stamped the cooldown
unproject_none_stamped(app) == [app EXCEPT !.last_nuke_frame = app.frame]

\* "None => return": the state launch_nuke leaves when the click has no
\* geographic point
unproject_none(app) == app

\* radius_km = 50.0 + 700.0 / effective_zoom
blast_radius_km(p) == 50 + 700000 \div effective_zoom(p)

\* a fire target without the cap of 20000
target_fires_uncapped(radius_km) ==
    MulDiv(radius_km * radius_km, 355, 113) \div 5 + 200

\* target_fires = ((pi * r * r / 5.0) as usize + 200).min(20000)
target_fires(radius_km) ==
    Min(MulDiv(radius_km * radius_km, 355, 113) \div 5 + 200, 20000)

\* One sample of the rejection loop: s = [frac, dir, jitter], the distance as
\* a fraction (per mille) of the radius, the angle as a compass direction,
\* and the intensity jitter rand * 30.
DirCos(dir) == CASE dir = "E" -> 1 [] dir = "W" -> -1 [] OTHER -> 0

DirSin(dir) == CASE dir = "N" -> 1 [] dir = "S" -> -1 [] OTHER -> 0

\* fire_lon, fire_lat of the sample
sample_pos(lon, lat, radius_km, s) ==
    LET dist == (radius_km * s.frac) \div 1000
        cos_lat == Max(CosPm(lat), 100)
        dlat == (dist * DirSin(s.dir) * 100) \div 111
        dlon == (dist * DirCos(s.dir) * 100000) \div (111 * cos_lat)
    IN <<lon + dlon, lat + dlat>>

\* intensity = (200 + center_factor * 55 + rand * 30).min(255) as u8
sample_intensity(s) == Min(200 + ((1000 - s.frac) * 55) \div 1000 + s.jitter, 255)

\* the land test that admits a sample of the rejection loop
spawn_admits(lg, pos) == is_on_land(lg, pos[1], pos[2])

\* The rejection loop for a plan [k, a, b]: the first k attempts draw sample
\* a, the later ones sample b.  The loop runs while spawned < target and
\* attempt < 2 * target; the result is the groups pushed.
spawn_fires(lg, lon, lat, radius_km, target, plan) ==
    LET posA == sample_pos(lon, lat, radius_km, plan.a)
        posB == sample_pos(lon, lat, radius_km, plan.b)
        k1 == Min(plan.k, 2 * target)
        s1 == IF spawn_admits(lg, posA) THEN Min(k1, target) ELSE 0
        used1 == IF spawn_admits(lg, posA) THEN s1 ELSE k1
        s2 == IF spawn_admits(lg, posB)
              THEN Min(target - s1, 2 * target - used1) ELSE 0
        gA == IF s1 > 0
              THEN <<[lon |-> posA[1], lat |-> posA[2],
                      intensity |-> sample_intensity(plan.a), n |-> s1]>>
              ELSE <<>>
        gB == IF s2 > 0
              THEN <<[lon |-> posB[1], lat |-> posB[2],
                      intensity |-> sample_intensity(plan.b), n |-> s2]>>
              ELSE <<>>
    IN gA \o gB

\* the value of "attempt" when the rejection loop of spawn_fires exits
spawn_attempts(lg, lon, lat, radius_km, target, plan) ==
    LET posA == sample_pos(lon, lat, radius_km, plan.a)
        posB == sample_pos(lon, lat, radius_km, plan.b)
        k1 == Min(plan.k, 2 * target)
        s1 == IF spawn_admits(lg, posA) THEN Min(k1, target) ELSE 0
        used1 == IF spawn_admits(lg, posA) THEN s1 ELSE k1
        used2 == IF spawn_admits(lg, posB)
                 THEN Min(target - s1, 2 * target - used1)
                 ELSE IF s1 < target THEN 2 * target - used1 ELSE 0
    IN used1 + used2

\* launch_nuke once the click has resolved to (lon, lat)
detonate(app, lon, lat, plan) ==
    LET radius_km == blast_radius_km(app.projection)
        dmg == apply_blast_damage(app.cities, app.casualties, lon, lat, radius_km)
    IN [app EXCEPT
          !.last_nuke_frame = app.frame,
          !.explosions = Append(@, [lon |-> lon, lat |-> lat, frame |-> 0,
                                    radius_km |-> radius_km]),
          !.fires = @ \o spawn_fires(app.land_grid, lon, lat, radius_km,
                                     target_fires(radius_km), plan),
          !.fallout = Append(@, [lon |-> lon, lat |-> lat,
                                 radius_km |-> radius_km * 2,
                                 intensity |-> 1000]),
          !.cities = dmg.cities,
          !.casualties = dmg.casualties]

\* App::launch_nuke(col, row); point is the geographic point under the pixel
launch_nuke(app, col, row, point, plan) ==
    IF cooldown_active(app.frame, app.last_nuke_frame) THEN app
    ELSE LET px == SatSub(col, 1) * 2
             py == SatSub(row, 1) * 4
             r == proj_unproject(app.projection, px, py, point)
         IN IF ~r.some THEN unproject_none(app)
            ELSE detonate(app, r.lon, r.lat, plan)

---------------------------------------------------------------------------
(* src/app.rs: FireGrid and the ongoing damage                             *)

\* FireGrid::new(0.25): resolution in hundredths of a degree, width, height
FireGridFine ==
    [resolution |-> 25, width |-> 36000 \div 25, height |-> 18000 \div 25]

\* the cell index FireGrid::rebuild computes for a fire
fire_cell(fg, lon, lat) ==
    (normalize_lat(lat) \div fg.resolution) * fg.width
        + normalize_lon(lon) \div fg.resolution

\* FireGrid::rebuild: cells.fill(0), then the maximum intensity per cell.
\* The grid is the function from the non-zero cells to their value.
rebuild(fg, fs) ==
    LET hit == {i \in DOMAIN fs :
                  fire_cell(fg, fs[i].lon, fs[i].lat) < fg.width * fg.height}
        idxs == {fire_cell(fg, fs[i].lon, fs[i].lat) : i \in hit}
        cell_max(c) ==
            LET vals == {fs[i].intensity :
                           i \in {j \in hit : fire_cell(fg, fs[j].lon, fs[j].lat) = c}}
            IN CHOOSE v \in vals \cup {0} : \A w \in vals : w <= v
    IN [c \in {d \in idxs : cell_max(d) > 0} |-> cell_max(c)]

\* cells[idx] of a rebuilt grid
cell_value(cells, idx) == IF idx \in DOMAIN cells THEN cells[idx] ELSE 0

\* the 3x3 probe of apply_fire_damage_to_cities: how many probes see a cell
\* above 50
fire_cells_near(fg, cells, lon, lat) ==
    LET cx == normalize_lon(lon) \div fg.resolution
        cy == normalize_lat(lat) \div fg.resolution
        nx(dx) == Max(0, Min(cx + dx, fg.width - 1))
        ny(dy) == Max(0, Min(cy + dy, fg.height - 1))
    IN Cardinality({d \in (-1..1) \X (-1..1) :
                      cell_value(cells, ny(d[2]) * fg.width + nx(d[1])) > 50})

RECURSIVE fire_damage_loop(_, _, _)
\* the loop of apply_fire_damage_to_cities over idx; st is [cities, casualties]
fire_damage_loop(st, cells, idx) ==
    IF idx > Len(st.cities) THEN st
    ELSE LET city == st.cities[idx]
             n == fire_cells_near(FireGridFine, cells, city.lon, city.lat)
             damage == Max(MulDiv(city.population, n, 100), 1)
             next == IF city.population # 0 /\ n > 0
                     THEN [cities |-> [st.cities EXCEPT ![idx].population =
                                          pop_sub(city.population, damage)],
                           casualties |-> st.casualties + damage]
                     ELSE st
         IN fire_damage_loop(next, cells, idx + 1)

\* App::apply_fire_damage_to_cities, rate 0.01
apply_fire_damage_to_cities(st, cells) == fire_damage_loop(st, cells, 1)

RECURSIVE ongoing_loop(_, _, _, _, _, _, _)
\* the loop of apply_ongoing_damage; the rate is rate_num / 200000
ongoing_loop(st, cand, lon, lat, radius_km, rate_num, k) ==
    IF k > Len(cand) THEN st
    ELSE LET idx == cand[k]
             city == st.cities[idx + 1]
             dist == fast_distance_km(lon, lat, city.lon, city.lat)
             hit == /\ idx < Len(st.cities)
                    /\ city.population # 0
                    /\ dist < radius_km + city.radius_km
             damage == Max(MulDiv(city.population, rate_num, 200000), 1)
             next == IF hit
                     THEN [cities |-> [st.cities EXCEPT ![idx + 1].population =
                                          pop_sub(city.population, damage)],
                           casualties |-> st.casualties + damage]
                     ELSE st
         IN ongoing_loop(next, cand, lon, lat, radius_km, rate_num, k + 1)

\* App::apply_ongoing_damage
apply_ongoing_damage(st, lon, lat, radius_km, rate_num) ==
    LET cand == query_radius(city_grid(st.cities), lon, lat,
                             (radius_km + 50) * 100, 111)
    IN ongoing_loop(st, cand, lon, lat, radius_km, rate_num, 1)

RECURSIVE fallout_damage(_, _, _)
\* the loop over the fallout zones in update_explosions:
\* rate = intensity / 10000 * 0.05
fallout_damage(st, zones, i) ==
    IF i > Len(zones) THEN st
    ELSE LET zone == zones[i]
             next == IF zone.intensity > 0
                     THEN apply_ongoing_damage(st, zone.lon, zone.lat,
                                               zone.radius_km, zone.intensity)
                     ELSE st
         IN fallout_damage(next, zones, i + 1)

---------------------------------------------------------------------------
(* src/app.rs: App::update_explosions.  The pseudo-random draws of one     *)
(* tick are its spread event ev = [g, offs]: the fires of group g draw a   *)
(* value above 0.85 and each spawns Len(offs) children (1 or 2) at the     *)
(* given offsets; no other fire spreads.  g = 0 is a tick without spread.  *)

MAX_FIRES == 30000

\* a fire that never loses intensity
decay_fire_never(f, fr) == f

\* fire.intensity.saturating_sub(1) when frame % 5 == 0
decay_fire(f, fr) ==
    [f EXCEPT !.intensity = IF fr % 5 = 0 THEN SatSub(@, 1) ELSE @]

\* a spread test that lets a fire at 60 spread
should_check_spread_at_60(intensity) == intensity >= 60

\* should_check_spread
should_check_spread(intensity) == intensity > 60

\* intensity of a spread fire: fire.intensity.saturating_sub(10)
spread_intensity(intensity) == SatSub(intensity, 10)

\* a closure that keeps burnt-out fires
fire_retained_at_zero(f) == f.intensity >= 0

\* the value the retain_mut closure returns: fire.intensity > 0
fire_retained(f) == f.intensity > 0

\* an animation that keeps its explosion through frame 60
explosion_retained_through_60(e) == e.frame <= 60

\* exp.frame < 60
explosion_retained(e) == e.frame < 60

\* a zone kept at intensity 0
zone_retained_at_zero(z) == z.intensity >= 0

\* zone.intensity > 0
zone_retained(z) == z.intensity > 0

\* damage on every tick
damage_due_every_tick(fr) == TRUE

\* the ongoing damage runs when frame % 10 == 0
damage_due(fr) == fr % 10 = 0

\* the children one fire of group f pushes into new_fires
spread_children(f, offs) ==
    IF should_check_spread(f.intensity)
    THEN [s \in DOMAIN offs |->
            [lon |-> f.lon + offs[s][1], lat |-> f.lat + offs[s][2],
             intensity |-> spread_intensity(f.intensity)]]
    ELSE <<>>

\* a filter that lets candidates on water through
spread_admits_water(lg, c) == TRUE

\* the test of new_fires.retain: only candidates on land stay
spread_admits(lg, c) == is_on_land(lg, c.lon, c.lat)

\* fires_remaining = 30000_usize.saturating_sub(self.fires.len())
fires_remaining(len) == SatSub(MAX_FIRES, len)

\* new_fires.into_iter().take(to_add) when each of n fires contributed the
\* candidates cl in turn: candidate j of every fire is taken cnt(j) times
take_new(cl, n, remaining) ==
    LET c == Len(cl)
        to_add == Min(c * n, remaining)
        cnt(j) == Min(n, to_add \div c + (IF j <= to_add % c THEN 1 ELSE 0))
        grp(j) == IF cnt(j) > 0
                  THEN <<[lon |-> cl[j].lon, lat |-> cl[j].lat,
                          intensity |-> cl[j].intensity, n |-> cnt(j)]>>
                  ELSE <<>>
    IN IF c = 0 THEN <<>>
       ELSE IF c = 1 THEN grp(1)
       ELSE grp(1) \o grp(2)

\* App::update_explosions
update_explosions(app, ev) ==
    LET fr == app.frame + 1
        exps == SelectSeq([i \in DOMAIN app.explosions |->
                          [app.explosions[i] EXCEPT !.frame = @ + 1]],
                       explosion_retained)
        decayed == [i \in DOMAIN app.fires |-> decay_fire(app.fires[i], fr)]
        parent == decayed[ev.g]
        new_fires == IF ev.g \in DOMAIN decayed
                     THEN spread_children(parent, ev.offs) ELSE <<>>
        kept == SelectSeq(decayed, fire_retained)
        on_land(c) == spread_admits(app.land_grid, c)
        cands == SelectSeq(new_fires, on_land)
        added == IF ev.g \in DOMAIN decayed
                 THEN take_new(cands, parent.n, fires_remaining(fires_len(kept)))
                 ELSE <<>>
        fs == kept \o added
        zones == SelectSeq([i \in DOMAIN app.fallout |->
                           [app.fallout[i] EXCEPT !.intensity = SatSub(@, 1)]],
                        zone_retained)
        st0 == [cities |-> app.cities, casualties |-> app.casualties]
        st1 == IF damage_due(fr)
               THEN fallout_damage(
                        apply_fire_damage_to_cities(st0, app.fire_grid_fine),
                        zones, 1)
               ELSE st0
    IN [app EXCEPT
          !.frame = fr,
          !.explosions = exps,
          !.fires = fs,
          !.fallout = zones,
          !.cities = st1.cities,
          !.casualties = st1.casualties,
          !.fire_grid_fine = rebuild(FireGridFine, fs)]

\* the value update_explosions returns, from the state app it leaves
update_explosions_returns(app) ==
    app.explosions # <<>> \/ app.fires # <<>> \/ app.fallout # <<>>

---------------------------------------------------------------------------
(* The simulation as a state machine                                       *)

\* the application state as one record
App ==
    [projection |-> projection, frame |-> frame,
     last_nuke_frame |-> last_nuke_frame, explosions |-> explosions,
     fires |-> fires, fallout |-> fallout, cities |-> cities,
     casualties |-> casualties, fire_grid_fine |-> fire_grid_fine,
     land_grid |-> land_grid]

SetApp(a) ==
    /\ projection' = a.projection
    /\ frame' = a.frame
    /\ last_nuke_frame' = a.last_nuke_frame
    /\ explosions' = a.explosions
    /\ fires' = a.fires
    /\ fallout' = a.fallout
    /\ cities' = a.cities
    /\ casualties' = a.casualties
    /\ fire_grid_fine' = a.fire_grid_fine
    /\ land_grid' = a.land_grid

\* App::new, the cities loaded, and the land grid either built from the land
\* polygons or absent
InitSim ==
    /\ projection = InitProjection
    /\ frame = 0
    /\ last_nuke_frame = 0
    /\ explosions = <<>>
    /\ fires = <<>>
    /\ fallout = <<>>
    /\ cities = CityGrid.items
    /\ casualties = 0
    /\ fire_grid_fine = <<>>
    /\ land_grid \in {NoLandGrid, BuiltLandGrid}

\* samples of the rejection loop
SampleCenter == [frac |-> 0, dir |-> "E", jitter |-> 29]

SampleNear == [frac |-> 51, dir |-> "E", jitter |-> 0]

SampleEdge == [frac |-> 1000, dir |-> "N", jitter |-> 0]

\* the draws of one tick for the fires fs: no spread, or one group (of
\* intensity at most maxParent, while fewer than maxGroups groups exist)
\* spreading with one or two children
SpreadOffs == {<<<<10, 0>>>>, <<<<0, -15>>, <<10, 0>>>>}

NoSpread == [g |-> 0, offs |-> <<>>]

SpreadEvents(fs, maxGroups, maxParent) ==
    {NoSpread} \cup
    {[g |-> i, offs |-> o] :
        i \in {j \in DOMAIN fs : Len(fs) < maxGroups /\ fs[j].intensity <= maxParent},
        o \in SpreadOffs}

\* right click at terminal cell (col, row)
LaunchNuke(clicks, points, plans) ==
    \E c \in clicks, g \in points, p \in plans :
        /\ SetApp(launch_nuke(App, c[1], c[2], g, p))
        /\ UNCHANGED <<cacheVars, gridVars, probeVars>>

\* one pass of the event loop
Tick(maxFrame, maxGroups, maxParent) ==
    /\ frame < maxFrame
    /\ \E ev \in SpreadEvents(fires, maxGroups, maxParent) :
          SetApp(update_explosions(App, ev))
    /\ UNCHANGED <<cacheVars, gridVars, probeVars>>

ZoomIn(maxZoom) ==
    /\ effective_zoom(projection) < maxZoom
    /\ projection' = proj_zoom_in(projection)
    /\ UNCHANGED <<simRest, cacheVars, gridVars, probeVars>>

ZoomOut(minZoom) ==
    /\ effective_zoom(projection) > minZoom
    /\ projection' = proj_zoom_out(projection)
    /\ UNCHANGED <<simRest, cacheVars, gridVars, probeVars>>

ToggleProjection ==
    /\ projection' = proj_toggle(projection)
    /\ UNCHANGED <<simRest, cacheVars, gridVars, probeVars>>


\* degrees of longitude per pixel, in ten-thousandths: 360 / (zoom * width)
vp_scale(vp) == MulDiv(3600000, 1000, vp.zoom * vp.width)

\* Viewport::pan: the center moves by dx * scale and -dy * scale * 0.5, the
\* longitude wraps past +-180 and the latitude is clamped to +-85
vp_pan(vp, dx, dy) ==
    LET lon == vp.center_lon + dx * vp_scale(vp)
        lat == vp.center_lat - Trunc(dy * vp_scale(vp), 2)
    IN [vp EXCEPT
          !.center_lon = IF lon > 1800000 THEN lon - 3600000
                         ELSE IF lon < -1800000 THEN lon + 3600000 ELSE lon,
          !.center_lat = Max(-850000, Min(lat, 850000))]

\* the angle of d pixels on the globe, d / radius radians, in
\* ten-thousandths of a degree
drag_angle(g, d) == Trunc(d * 5729578, globe_radius(g))

\* the longitude center_lonlat reads back with atan2: within (-180, 180]
wrap_lon(lon) == ((lon + 1799999) % 3600000) - 1799999

\* a turn of the globe's frame by ax about its up axis and by ay about its
\* right axis, read back through center_lonlat: the center moves north by
\* ay and east by ax / cos(lat) (to first order in ax; the second-order
\* change of latitude is below the unit of the center).  A turn over a pole
\* comes down the opposite meridian.
globe_rotate(g, ax, ay) ==
    LET c == CosPm(g.center_lat \div 100)
        east == IF c = 0 THEN 0
                ELSE IF ax < 0 THEN -MulDiv(-ax, 1000, c)
                ELSE MulDiv(ax, 1000, c)
        lon == g.center_lon + east
        lat == g.center_lat + ay
    IN [g EXCEPT
          !.center_lon = wrap_lon(IF Abs(lat) > 900000 THEN lon + 1800000
                                  ELSE lon),
          !.center_lat = IF lat > 900000 THEN 1800000 - lat
                         ELSE IF lat < -900000 THEN -1800000 - lat ELSE lat]

\* GlobeViewport::rotate_drag: angle_x = dx / radius, angle_y = -dy / radius
rotate_drag(g, dx, dy) == globe_rotate(g, drag_angle(g, dx), -drag_angle(g, dy))

\* GlobeViewport::apply_momentum: the same two turns by vel_x and vel_y
apply_momentum(g, vel_x, vel_y) == globe_rotate(g, vel_x, vel_y)

\* Projection::pan
proj_pan(p, dx, dy) ==
    IF p.kind = "Globe" THEN rotate_drag(p, dx, dy) ELSE vp_pan(p, dx, dy)

\* update_explosions, the spin part: momentum turns a globe while either
\* velocity exceeds 0.0001 radians per frame
spin_applies(vx, vy) == Abs(vx) > 57 \/ Abs(vy) > 57

apply_spin(p, vx, vy) ==
    IF spin_applies(vx, vy) /\ p.kind = "Globe" THEN apply_momentum(p, vx, vy)
    ELSE p

---------------------------------------------------------------------------
(* src/map/renderer.rs: the static-layer render cache                      *)

\* DisplaySettings::default, the four toggles the cache key reads
DefaultSettings ==
    [show_coastlines |-> TRUE, show_borders |-> TRUE, show_states |-> TRUE,
     show_counties |-> TRUE]

\* RenderCacheKey::from_projection: (center * 1000.0) as i64 and
\* (effective_zoom * 100.0) as i64; an "as" cast truncates toward zero
from_projection(p, width, height, st) ==
    [width |-> width, height |-> height,
     center_lon |-> Trunc(p.center_lon, 10),
     center_lat |-> Trunc(p.center_lat, 10),
     zoom |-> Trunc(effective_zoom(p), 10),
     is_globe |-> p.kind = "Globe",
     show_coastlines |-> st.show_coastlines, show_borders |-> st.show_borders,
     show_states |-> st.show_states, show_counties |-> st.show_counties]

\* A canvas: BrailleCanvas::new(width, height) with, when the layer is drawn,
\* the features drawn through the exact projection
Canvas(drawn, p, width, height) ==
    [width |-> width, height |-> height,
     ink |-> IF drawn THEN <<p>> ELSE <<>>]

\* the miss branch of render_mercator / render_globe: the four canvases
rasterize(p, width, height, st) ==
    LET zoom == effective_zoom(p)
    IN [coastlines |-> Canvas(st.show_coastlines, p, width, height),
        borders |-> Canvas(st.show_borders, p, width, height),
        states |-> Canvas(st.show_borders /\ st.show_states /\ zoom >= 4000,
                          p, width, height),
        counties |-> Canvas(st.show_borders /\ st.show_counties /\ zoom >= 7000,
                            p, width, height)]

NoCache == [some |-> FALSE]

\* a miss that leaves the slot empty
cache_store_nothing(key, layers) == NoCache

\* *self.cache.borrow_mut() = Some(RenderCache { key, .. })
cache_store(key, layers) == [some |-> TRUE, key |-> key, layers |-> layers]

\* MapRenderer::render: the static layers returned and the cache afterwards
render(p, width, height, st, slot) ==
    LET cache_key == from_projection(p, width, height, st)
        use_cache == slot.some /\ slot.key = cache_key
        fresh == rasterize(p, width, height, st)
    IN IF use_cache
       THEN [cache |-> slot, layers |-> slot.layers, hit |-> TRUE]
       ELSE [cache |-> cache_store(cache_key, fresh), layers |-> fresh,
             hit |-> FALSE]

\* MapRenderer::new
InitCache ==
    /\ settings = DefaultSettings
    /\ cache = NoCache
    /\ rendered = [some |-> FALSE]
    /\ renders = 0

\* ui::render_map hands render the size of the map area in character cells:
\* the braille pixel size over 2 and over 4
cells_wide(p) == p.width \div 2

cells_high(p) == p.height \div 4

\* MapRenderer::toggle_borders
toggle_borders(st) == [st EXCEPT !.show_borders = ~@]

\* One pass of the loop of run: the draw (ui::render_map renders the current
\* projection), then at most one input event, whose handler leaves the
\* projection p2 and the settings st2, then update_explosions, which turns a
\* spinning globe by the spin velocity (vx, vy).
Pass(maxRenders, p2, st2, vx, vy) ==
    /\ renders < maxRenders
    /\ LET r == render(projection, cells_wide(projection), cells_high(projection),
                       settings, cache)
       IN /\ cache' = r.cache
          /\ rendered' = [some |-> TRUE, projection |-> projection,
                          key |-> from_projection(projection, cells_wide(projection),
                                                  cells_high(projection), settings),
                          layers |-> r.layers, hit |-> r.hit]
    /\ renders' = renders + 1
    /\ settings' = st2
    /\ SetApp([update_explosions(App, NoSpread) EXCEPT
                  !.projection = apply_spin(p2, vx, vy)])
    /\ UNCHANGED <<gridVars, probeVars>>

\* the pixel deltas of the pan keys and of the horizontal scroll
PanKeys == {<<-10, 0>>, <<10, 0>>, <<0, -6>>, <<0, 6>>, <<-15, 0>>, <<15, 0>>}

\* no event within the poll interval
PassIdle(maxRenders) == Pass(maxRenders, projection, settings, 0, 0)

PassPan(maxRenders) ==
    \E d \in PanKeys :
        Pass(maxRenders, proj_pan(projection, d[1], d[2]), settings, 0, 0)

PassZoomIn(maxRenders) ==
    Pass(maxRenders, proj_zoom_in(projection), settings, 0, 0)

PassZoomOut(maxRenders) ==
    Pass(maxRenders, proj_zoom_out(projection), settings, 0, 0)

PassToggleProjection(maxRenders) ==
    Pass(maxRenders, proj_toggle(projection), settings, 0, 0)

PassToggleBorders(maxRenders) ==
    Pass(maxRenders, projection, toggle_borders(settings), 0, 0)

\* Net turns, in ten-thousandths of a degree, of a pass in which a pan key
\* turns a globe against its spin.
SpinNets == {-16, -8, 8, 16}

\* The spin velocity is what earlier drags left (an average of drag angles,
\* times 0.95 per frame): a real number the model does not track.  The
\* values drawn are the free spin just above the threshold and the spins
\* that all but cancel the turn of a horizontal pan of dx pixels.
SpinVelocities(g, dx) ==
    IF dx = 0 THEN {-60, 60} ELSE {e - drag_angle(g, dx) : e \in SpinNets}

\* a pass on a spinning globe: no event or a horizontal pan key, then the
\* momentum
PassSpinning(maxRenders) ==
    /\ projection.kind = "Globe"
    /\ \E dx \in {-10, 0, 10} :
          \E vx \in SpinVelocities(projection, dx) :
              /\ spin_applies(vx, 0)
              /\ Pass(maxRenders, proj_pan(projection, dx, 0), settings, vx, 0)

---------------------------------------------------------------------------
(* src/map/spatial.rs: FeatureGrid (bounding-box grid, used for the line   *)
(* layers).  Coordinates of this part are whole degrees.  A grid is        *)
(* [cells, cell_size, lon_cells, lat_cells] with cells the function from   *)
(* the non-empty flat indices to their index lists; a box is <<min_lon,    *)
(* min_lat, max_lon, max_lat>>.                                            *)

\* CELL_SIZE of MapRenderer::build_spatial_indexes
CELL_SIZE == 5

\* FeatureGrid::new: lon_cells = (360.0 / cell_size).ceil(), lat_cells likewise
fg_new(cell_size) ==
    [cells |-> <<>>, cell_size |-> cell_size,
     lon_cells |-> -((-360) \div cell_size),
     lat_cells |-> -((-180) \div cell_size)]

\* FeatureGrid::cell_index: the flat index, or -1 for None
cell_index(grid, lon_cell, lat_cell) ==
    LET x == lon_cell + grid.lon_cells \div 2
        y == lat_cell + grid.lat_cells \div 2
    IN IF x >= 0 /\ x < grid.lon_cells /\ y >= 0 /\ y < grid.lat_cells
       THEN y * grid.lon_cells + x
       ELSE -1

\* the flat indices the loops of build / query_into visit for a box, in loop
\* order (rows y, then columns x), cells out of bounds skipped
RECURSIVE box_cells(_, _, _, _, _, _)
box_cells(grid, x0, x1, y0, y1, x) ==
    IF y0 > y1 THEN <<>>
    ELSE IF x > x1 THEN box_cells(grid, x0, x1, y0 + 1, y1, x0)
    ELSE (IF cell_index(grid, x, y0) >= 0
          THEN <<cell_index(grid, x, y0)>> ELSE <<>>)
         \o box_cells(grid, x0, x1, y0, y1, x + 1)

box_cell_seq(grid, box) ==
    LET lo == to_cell(box[1], box[2], grid.cell_size)
        hi == to_cell(box[3], box[4], grid.cell_size)
    IN box_cells(grid, lo[1], hi[1], lo[2], hi[2], lo[1])

\* FeatureGrid::build: feature idx (0-based) is pushed to every in-bounds
\* cell of its box, features in order
fg_build(bboxes, cell_size) ==
    LET grid == fg_new(cell_size)
        covers(i) == SeqToSet(box_cell_seq(grid, bboxes[i]))
        touched == UNION {covers(i) : i \in DOMAIN bboxes}
        RECURSIVE cell_list(_, _)
        cell_list(ci, i) ==
            IF i > Len(bboxes) THEN <<>>
            ELSE (IF ci \in covers(i) THEN <<i - 1>> ELSE <<>>)
                 \o cell_list(ci, i + 1)
    IN [grid EXCEPT !.cells = [ci \in touched |-> cell_list(ci, 1)]]

RECURSIVE extend_cells(_, _, _)
extend_cells(cells, seq, k) ==
    IF k > Len(seq) THEN <<>>
    ELSE CellGet(cells, seq[k]) \o extend_cells(cells, seq, k + 1)

\* FeatureGrid::query_into: results extended by every visited cell
query_into(grid, min_lon, min_lat, max_lon, max_lat, results) ==
    results \o extend_cells(grid.cells,
                            box_cell_seq(grid, <<min_lon, min_lat, max_lon, max_lat>>), 1)

\* closed boxes intersect
boxes_intersect(a, b) ==
    a[1] <= b[3] /\ b[1] <= a[3] /\ a[2] <= b[4] /\ b[2] <= a[4]

---------------------------------------------------------------------------
(* The two grids as state machines                                         *)

NoQuery == [kind |-> "none"]

InitGrids ==
    /\ sgrid = [cells |-> <<>>, items |-> <<>>, cell_size |-> 10]
    /\ sg_query = NoQuery
    /\ sg_result = <<>>
    /\ fg_boxes = <<>>
    /\ fgrid = fg_new(CELL_SIZE)
    /\ fg_query = NoQuery
    /\ fg_result = <<>>

\* points (whole degrees) inserted into the SpatialGrid; the item stored is
\* the point itself
SgPoints == {<<-5, -4>>, <<4, 4>>, <<15, -3>>, <<-10, 0>>, <<9, 9>>}

\* radius queries <<lon, lat, radius>> and box queries
SgRadiusQueries == {<<0, 0, 7>>, <<12, 0, 3>>, <<-1, -1, 15>>, <<10, 10, 10>>}

SgBoxQueries == {<<-10, -5, 4, 5>>, <<0, 0, 9, 9>>, <<-20, -20, 20, 20>>}

SgInsert(maxItems) ==
    /\ Len(sgrid.items) < maxItems
    /\ \E p \in SgPoints : sgrid' = sg_insert(sgrid, p[1], p[2], p)
    /\ sg_query' = NoQuery
    /\ sg_result' = <<>>
    /\ UNCHANGED <<fg_boxes, fgrid, fg_query, fg_result, simVars, cacheVars, probeVars>>

SgQueryRadius ==
    /\ \E q \in SgRadiusQueries :
          /\ sg_query' = [kind |-> "radius", lon |-> q[1], lat |-> q[2], r |-> q[3]]
          /\ sg_result' = query_radius(sgrid, q[1], q[2], q[3], 1)
    /\ UNCHANGED <<sgrid, fg_boxes, fgrid, fg_query, fg_result, simVars, cacheVars, probeVars>>

SgQueryBbox ==
    /\ \E q \in SgBoxQueries :
          /\ sg_query' = [kind |-> "bbox", box |-> q]
          /\ sg_result' = query_bbox(sgrid, q[1], q[2], q[3], q[4])
    /\ UNCHANGED <<sgrid, fg_boxes, fgrid, fg_query, fg_result, simVars, cacheVars, probeVars>>

\* feature bounding boxes and query boxes inside [-180,180] x [-90,90]
FeatureBoxes ==
    {<<-180, -90, -170, -80>>, <<0, 0, 12, 7>>, <<170, -5, 180, 5>>,
     <<180, 0, 180, 10>>, <<20, 90, 30, 90>>}

QueryBoxes ==
    {<<175, 0, 180, 10>>, <<0, 0, 4, 4>>, <<-180, -90, -175, -85>>,
     <<-5, -5, 5, 5>>, <<20, 85, 30, 90>>}

\* a feature is loaded and the index rebuilt (build_spatial_indexes)
FgAddFeature(maxFeatures) ==
    /\ Len(fg_boxes) < maxFeatures
    /\ \E b \in FeatureBoxes :
          /\ fg_boxes' = Append(fg_boxes, b)
          /\ fgrid' = fg_build(Append(fg_boxes, b), CELL_SIZE)
    /\ fg_query' = NoQuery
    /\ fg_result' = <<>>
    /\ UNCHANGED <<sgrid, sg_query, sg_result, simVars, cacheVars, probeVars>>

FgQuery ==
    /\ \E q \in QueryBoxes :
          /\ fg_query' = [kind |-> "box", box |-> q]
          /\ fg_result' = query_into(fgrid, q[1], q[2], q[3], q[4], <<>>)
    /\ UNCHANGED <<fg_boxes, fgrid, sgrid, sg_query, sg_result, simVars, cacheVars, probeVars>>

---------------------------------------------------------------------------
(* src/map/renderer.rs: a LandGrid built from polygons and looked up.      *)
(* Coordinates are centi-degrees.  A polygon is a rectangle <<min_lon,     *)
(* min_lat, max_lon, max_lat>> given by its four corners as one ring.      *)

\* Polygon::contains for a rectangular ring: the bbox test, then the ray
\* cast of point_in_polygon, which counts the vertical edges right of the
\* point among those whose ends lie on both sides of its latitude
contains(poly, lon, lat) ==
    /\ ~(lon < poly[1] \/ lon > poly[3] \/ lat < poly[2] \/ lat > poly[4])
    /\ poly[2] <= lat /\ lat < poly[4]
    /\ poly[1] <= lon /\ lon < poly[3]

\* ceil(a / b) for a >= 0
CeilDiv(a, b) == (a + b - 1) \div b

\* the bits from_polygons sets for one polygon: the cells of the padded
\* bounding box whose center the polygon contains
polygon_bits(poly) ==
    LET lon_start == SatSub((poly[1] + 18000) \div LandGrid_RESOLUTION, 1)
        lon_end == Min(CeilDiv(poly[3] + 18000, LandGrid_RESOLUTION) + 1,
                       LandGrid_WIDTH)
        lat_start == SatSub((poly[2] + 9000) \div LandGrid_RESOLUTION, 1)
        lat_end == Min(CeilDiv(poly[4] + 9000, LandGrid_RESOLUTION) + 1,
                       LandGrid_HEIGHT)
    IN {c[1] * LandGrid_WIDTH + c[2] :
          c \in {d \in (lat_start..(lat_end - 1)) \X (lon_start..(lon_end - 1)) :
                    contains(poly, -18000 + d[2] * 10 + 5, -9000 + d[1] * 10 + 5)}}

\* LandGrid::from_polygons: the bits of every polygon, then build_coarse
from_polygons(polys) ==
    LET bitmap == UNION {polygon_bits(polys[i]) : i \in DOMAIN polys}
    IN [built |-> TRUE, bitmap |-> bitmap, coarse |-> build_coarse(bitmap)]

\* LandGrid::BITMAP_LEN
LandGrid_BITMAP_LEN == (LandGrid_TOTAL_BITS + 63) \div 64

\* the array reads of LandGrid::is_land: self.coarse[coarse_idx], and for a
\* mixed cell the word self.bitmap[idx / 64] that get_bit reads when
\* idx < TOTAL_BITS
is_land_reads(grid, lon, lat) ==
    LET coarse_lon == normalize_lon(lon) \div 100
        coarse_lat == normalize_lat(lat) \div 100
        coarse_idx == coarse_lat * 360 + Min(coarse_lon, 359)
        tier == IF coarse_idx \in DOMAIN grid.coarse
                THEN grid.coarse[coarse_idx] ELSE 0
        lon_idx == normalize_lon(lon) \div LandGrid_RESOLUTION
        lat_idx == normalize_lat(lat) \div LandGrid_RESOLUTION
        idx == Min(lat_idx, LandGrid_HEIGHT - 1) * LandGrid_WIDTH
               + Min(lon_idx, LandGrid_WIDTH - 1)
    IN {<<coarse_idx, 360 * 180>>} \cup
       (IF tier = 1 /\ idx < LandGrid_TOTAL_BITS
        THEN {<<idx \div 64, LandGrid_BITMAP_LEN>>} ELSE {})

InitLand ==
    /\ lg_polys = <<>>
    /\ lgrid = from_polygons(<<>>)
    /\ lg_query = [some |-> FALSE]
    /\ lg_result = FALSE
    /\ ix_call = "none"
    /\ ix_used = {}

\* land polygons: a whole 1-degree cell, half of the cell east of it, a
\* strip at the antimeridian across the equator, the cell in the north-west
\* corner of the world
LandPolygons ==
    {<<-100, 5100, 0, 5200>>, <<0, 5100, 50, 5200>>,
     <<17950, -50, 18000, 50>>, <<-18000, 8900, -17900, 9000>>}

\* coordinates looked up, inside and outside [-180,180] x [-90,90]
LandQueries ==
    {<<-50, 5150>>, <<25, 5150>>, <<75, 5150>>, <<150, 5150>>, <<17975, 25>>,
     <<18000, 25>>, <<-18025, 25>>, <<-17950, 9000>>, <<-17950, 9500>>,
     <<35950, 5150>>, <<-50, -9500>>, <<18050, 8950>>}

\* a land polygon is loaded and the grid built anew (build_land_grid)
LgAddPolygon(maxPolygons) ==
    /\ Len(lg_polys) < maxPolygons
    /\ \E poly \in LandPolygons :
          /\ lg_polys' = Append(lg_polys, poly)
          /\ lgrid' = from_polygons(Append(lg_polys, poly))
    /\ lg_query' = [some |-> FALSE]
    /\ lg_result' = FALSE
    /\ ix_call' = "none"
    /\ ix_used' = {}
    /\ UNCHANGED <<simVars, cacheVars, gridVars, camVars, canvasVars, orientVars>>

LgQuery ==
    /\ \E q \in LandQueries :
          /\ lg_query' = [some |-> TRUE, lon |-> q[1], lat |-> q[2]]
          /\ lg_result' = is_land(lgrid, q[1], q[2])
          /\ ix_used' = is_land_reads(lgrid, q[1], q[2])
    /\ ix_call' = "is_land"
    /\ UNCHANGED <<lg_polys, lgrid, simVars, cacheVars, gridVars, camVars, canvasVars, orientVars>>

---------------------------------------------------------------------------
(* src/app.rs: the array indexes of the fire grids.  Coordinates are       *)
(* centi-degrees; a use is a pair <<index, array length>>.                 *)

\* FireGrid::new(1.0), the coarse grid of App
FireGridCoarse ==
    [resolution |-> 100, width |-> 36000 \div 100, height |-> 18000 \div 100]

\* an f64 "as usize" cast of the quotient a / b: toward zero, negative to 0
AsUsize(a, b) == IF a <= 0 THEN 0 ELSE a \div b

\* (a / b).ceil() as usize
CeilAsUsize(a, b) == IF a <= 0 THEN 0 ELSE (a + b - 1) \div b

\* FireGrid::rebuild for one fire: the write self.cells[idx], made when
\* idx < self.cells.len()
rebuild_writes(fg, lon, lat) ==
    LET idx == fire_cell(fg, lon, lat)
    IN IF idx < fg.width * fg.height THEN {<<idx, fg.width * fg.height>>} ELSE {}

\* FireGrid::fires_in_region: the reads self.cells[row_start + lon_idx]
fires_in_region_reads(fg, min_lon, min_lat, max_lon, max_lat) ==
    LET min_x == AsUsize(Max(min_lon + 18000, 0), fg.resolution)
        max_x == Min(CeilAsUsize(Min(max_lon + 18000, 36000), fg.resolution),
                     fg.width)
        min_y == AsUsize(Max(min_lat + 9000, 0), fg.resolution)
        max_y == Min(CeilAsUsize(Min(max_lat + 9000, 18000), fg.resolution),
                     fg.height)
    IN {<<lat_idx * fg.width + lon_idx, fg.width * fg.height>> :
          lat_idx \in min_y..(max_y - 1), lon_idx \in min_x..(max_x - 1)}

\* the nine reads self.fire_grid_fine.cells[ny * width + nx] of the probe
\* of apply_fire_damage_to_cities around a city
city_probe_reads(fg, lon, lat) ==
    LET cx == normalize_lon(lon) \div fg.resolution
        cy == normalize_lat(lat) \div fg.resolution
        nx(dx) == Max(0, Min(cx + dx, fg.width - 1))
        ny(dy) == Max(0, Min(cy + dy, fg.height - 1))
    IN {<<ny(d[2]) * fg.width + nx(d[1]), fg.width * fg.height>> :
          d \in (-1..1) \X (-1..1)}

\* coordinates inside and outside [-180,180] x [-90,90]
IxLons == {-54010, -18000, -1, 17999, 18000, 36025}

IxLats == {-9500, -9000, 0, 9000, 27000}

\* query rectangles inside, across the edges of and outside the world
IxRegions ==
    {<<-200, -100, 300, 200>>, <<17500, 8500, 20000, 10000>>,
     <<-20000, -10000, -17500, -8800>>, <<40000, 0, 50000, 1000>>,
     <<-30000, -20000, -19000, -10000>>, <<17990, 8990, 18000, 9000>>,
     <<500, 500, -500, -500>>}

IxRebuild ==
    /\ \E fg \in {FireGridCoarse, FireGridFine}, lon \in IxLons, lat \in IxLats :
          ix_used' = rebuild_writes(fg, lon, lat)
    /\ ix_call' = "rebuild"
    /\ lg_query' = [some |-> FALSE]
    /\ lg_result' = FALSE
    /\ UNCHANGED <<lg_polys, lgrid, simVars, cacheVars, gridVars, camVars, canvasVars, orientVars>>

IxFiresInRegion ==
    /\ \E fg \in {FireGridCoarse, FireGridFine}, r \in IxRegions :
          ix_used' = fires_in_region_reads(fg, r[1], r[2], r[3], r[4])
    /\ ix_call' = "fires_in_region"
    /\ lg_query' = [some |-> FALSE]
    /\ lg_result' = FALSE
    /\ UNCHANGED <<lg_polys, lgrid, simVars, cacheVars, gridVars, camVars, canvasVars, orientVars>>

IxCityProbe ==
    /\ \E lon \in IxLons, lat \in IxLats :
          ix_used' = city_probe_reads(FireGridFine, lon, lat)
    /\ ix_call' = "city_probe"
    /\ lg_query' = [some |-> FALSE]
    /\ lg_result' = FALSE
    /\ UNCHANGED <<lg_polys, lgrid, simVars, cacheVars, gridVars, camVars, canvasVars, orientVars>>

---------------------------------------------------------------------------
(* src/map/projection.rs, src/map/globe.rs, src/app.rs: the camera under   *)
(* its own operations.  Pixels are whole pixels, mouse positions are       *)
(* terminal cells <<column, row>>.  Along the center parallel the Mercator *)
(* projection is linear, and so is every pixel offset from the center      *)
(* under a change of zoom; points off the center parallel are not          *)
(* projected here.                                                         *)

\* the values of "x as i32" for x = num / den, den > 0: the quotient
\* truncated toward zero.  Where the quotient is a whole number and x was
\* computed in f64 from an offset that is not zero (noisy), the rounding of
\* the steps before the cast leaves x on either side of it, and the cast
\* yields the whole number or the one next to it toward zero.
cast_i32(num, den, noisy) ==
    LET q == Trunc(num, den)
    IN IF noisy /\ num % den = 0 /\ q # 0
       THEN {q, IF q > 0 THEN q - 1 ELSE q + 1}
       ELSE {q}

\* Viewport::unproject, the longitude under pixel column px:
\* (px - width / 2) / scale + center_x, as degrees
vp_unproject_lon(vp, px) ==
    vp.center_lon + Trunc((2 * px - vp.width) * vp_scale(vp), 2)

\* Viewport::project, the pixel column of a longitude:
\* ((x - center_x) * scale + width / 2) as i32
vp_project_px(vp, lon) ==
    cast_i32(2 * (lon - vp.center_lon) + vp.width * vp_scale(vp),
             2 * vp_scale(vp), lon # vp.center_lon)

\* Viewport::project and GlobeViewport::project, the pixel row of a point
\* on the center parallel: (height / 2) as i32
project_py_center(p) == Trunc(p.height, 2)

\* GlobeViewport::project of the center: sx = 0, (width / 2) as i32
globe_project_px_center(g) == Trunc(g.width, 2)

\* GlobeViewport::unproject of a pixel of the center row, where it is the
\* center column: sx = (px - width / 2) / radius = 0 gives the center
globe_unproject_lon_center(g, px) ==
    IF 2 * px = g.width THEN [some |-> TRUE, lon |-> g.center_lon]
    ELSE [some |-> FALSE]

\* Viewport::zoom_at by the factor fnum / fden: the point under (px, py) is
\* unprojected, the zoom is multiplied and clamped to [0.5, 100], the point
\* is projected again and the view is panned by the pixel difference.  The
\* offset of the point from the center grows by new_zoom / zoom, which is
\* the factor unless the clamp acted.
vp_zoom_at(vp, px, py, fnum, fden) ==
    LET raw == (vp.zoom * fnum) \div fden
        new_zoom == Max(500, Min(raw, 100000))
        rn == IF new_zoom = raw THEN fnum ELSE new_zoom
        rd == IF new_zoom = raw THEN fden ELSE vp.zoom
        zoomed == [vp EXCEPT !.zoom = new_zoom]
        new_px == cast_i32((2 * px - vp.width) * rn + vp.width * rd, 2 * rd,
                           2 * px # vp.width)
        new_py == cast_i32((2 * py - vp.height) * rn + vp.height * rd, 2 * rd,
                           2 * py # vp.height)
    IN {vp_pan(zoomed, nx - px, ny - py) : nx \in new_px, ny \in new_py}

\* Viewport::zoom_in_at / zoom_out_at: zoom_at with 1.5 and 1.0 / 1.5
vp_zoom_in_at(vp, px, py) == vp_zoom_at(vp, px, py, 3, 2)

vp_zoom_out_at(vp, px, py) == vp_zoom_at(vp, px, py, 2, 3)

\* GlobeViewport::zoom_at: the radius is multiplied and clamped to
\* [0.35 * width, 35 * width]; if the pixel was on the disk the frame turns
\* by angle_x = -(sx_want - sx_now) and angle_y = sy_want - sy_now, the
\* offsets of the pixel over the new and over the old radius
globe_zoom_at(g, px, py, fnum, fden) ==
    LET zoomed == [g EXCEPT
                     !.zoom = Max(1000, Min((g.zoom * fnum) \div fden, 100000))]
        u == px - g.width \div 2
        v == py - g.height \div 2
    IN IF globe_outside_disk(g, px, py) THEN zoomed
       ELSE globe_rotate(zoomed, drag_angle(g, u) - drag_angle(zoomed, u),
                         drag_angle(g, v) - drag_angle(zoomed, v))

\* GlobeViewport::zoom_in_at / zoom_out_at
globe_zoom_in_at(g, px, py) == globe_zoom_at(g, px, py, 3, 2)

globe_zoom_out_at(g, px, py) == globe_zoom_at(g, px, py, 2, 3)

\* GlobeViewport::set_size: width and height are replaced and the radius
\* stays, so the zoom field (radius / (width * 0.35)) changes with the width
globe_set_size(g, w, h) ==
    [g EXCEPT !.width = w, !.height = h, !.zoom = (g.zoom * g.width) \div w]

\* the flat viewport's size fields replaced
vp_set_size(vp, w, h) == [vp EXCEPT !.width = w, !.height = h]

\* Projection::zoom_in_at / zoom_out_at / set_size: the cameras an
\* operation can leave
proj_zoom_in_at(p, px, py) ==
    IF p.kind = "Globe" THEN {globe_zoom_in_at(p, px, py)}
    ELSE vp_zoom_in_at(p, px, py)

proj_zoom_out_at(p, px, py) ==
    IF p.kind = "Globe" THEN {globe_zoom_out_at(p, px, py)}
    ELSE vp_zoom_out_at(p, px, py)

proj_set_size(p, w, h) ==
    IF p.kind = "Globe" THEN globe_set_size(p, w, h) ELSE vp_set_size(p, w, h)

\* App::zoom_in_at / zoom_out_at: the pixel of a terminal cell
cell_px(col) == SatSub(col, 1) * 2

cell_py(row) == SatSub(row, 1) * 4

\* App::resize: the braille pixel size inside the border and status bar
resize(p, width, height) ==
    proj_set_size(p, SatSub(width, 2) * 2, SatSub(height, 3) * 4)

\* App::handle_drag: the cell difference times 2, 3 or 4 by the zoom
drag_scale(p) ==
    IF effective_zoom(p) < 2000 THEN 2
    ELSE IF effective_zoom(p) < 4000 THEN 3 ELSE 4

handle_drag(p, dcol, drow) ==
    proj_pan(p, dcol * drag_scale(p), drow * drag_scale(p))

\* the last operation: its name, the cell of a zoom at the mouse, and for
\* such a zoom the camera before it; a zoom_out_at that follows a
\* zoom_in_at at the same cell is paired and keeps the camera before the
\* pair
OtherOp(name) ==
    [name |-> name, col |-> 0, row |-> 0, before |-> InitProjection,
     paired |-> FALSE]

NoRoundTrip == [some |-> FALSE]

InitCamera ==
    /\ cam_steps = 0
    /\ cam_op = OtherOp("new")
    /\ cam_rt = NoRoundTrip

\* one camera operation that leaves camera q
CamStep(maxSteps, q, op) ==
    /\ cam_steps < maxSteps
    /\ projection' = q
    /\ cam_steps' = cam_steps + 1
    /\ cam_op' = op
    /\ cam_rt' = NoRoundTrip
    /\ UNCHANGED <<simRest, cacheVars, gridVars, landVars, ix_call, ix_used,
                   canvasVars, orientVars>>

\* a pan key or a horizontal scroll
CamPan(maxSteps) ==
    \E d \in PanKeys :
        CamStep(maxSteps, proj_pan(projection, d[1], d[2]), OtherOp("pan"))

\* mouse moves between two drag events, in cells: one cell, and a sweep
\* over sixty columns reported as one event
DragMoves == {<<0, 1>>, <<60, 0>>, <<-60, 0>>}

CamDrag(maxSteps) ==
    \E d \in DragMoves :
        CamStep(maxSteps, handle_drag(projection, d[1], d[2]),
                OtherOp("handle_drag"))

CamZoomIn(maxSteps) ==
    CamStep(maxSteps, proj_zoom_in(projection), OtherOp("zoom_in"))

CamZoomOut(maxSteps) ==
    CamStep(maxSteps, proj_zoom_out(projection), OtherOp("zoom_out"))

\* cells of the mouse at a scroll: up and left of the center, and near the
\* right border (off the disk of a globe at zoom 1.0)
MouseCells == {<<25, 6>>, <<75, 11>>}

CamZoomInAt(maxSteps) ==
    \E m \in MouseCells :
        \E q \in proj_zoom_in_at(projection, cell_px(m[1]), cell_py(m[2])) :
            CamStep(maxSteps, q,
                    [name |-> "zoom_in_at", col |-> m[1], row |-> m[2],
                     before |-> projection, paired |-> FALSE])

CamZoomOutAt(maxSteps) ==
    \E m \in MouseCells :
        \E q \in proj_zoom_out_at(projection, cell_px(m[1]), cell_py(m[2])) :
            LET pair == cam_op.name = "zoom_in_at" /\ cam_op.col = m[1]
                        /\ cam_op.row = m[2]
            IN CamStep(maxSteps, q,
                       [name |-> "zoom_out_at", col |-> m[1], row |-> m[2],
                        before |-> IF pair THEN cam_op.before ELSE projection,
                        paired |-> pair])

CamToggle(maxSteps) ==
    CamStep(maxSteps, proj_toggle(projection), OtherOp("toggle_projection"))

\* terminal sizes of a resize event
TermSizes == {<<80, 24>>, <<120, 40>>}

CamResize(maxSteps) ==
    \E sz \in TermSizes :
        CamStep(maxSteps, resize(projection, sz[1], sz[2]), OtherOp("resize"))

\* longitude offsets from the center of the points of a round trip, in
\* ten-thousandths of a degree: the center and 45 degrees west
RoundTripOffsets == {0, -450000}

\* project followed by unproject of the pixel, for a point on the center
\* parallel; on the globe for the center itself
round_trips(p, off) ==
    LET lon == p.center_lon + off
    IN IF p.kind = "Globe"
       THEN {[some |-> TRUE, lon |-> lon, px |-> globe_project_px_center(p),
              py |-> project_py_center(p),
              back |-> globe_unproject_lon_center(p,
                           globe_project_px_center(p)).lon]}
       ELSE {[some |-> TRUE, lon |-> lon, px |-> px,
              py |-> project_py_center(p),
              back |-> vp_unproject_lon(p, px)] : px \in vp_project_px(p, lon)}

CamRoundTrip(maxSteps) ==
    /\ cam_steps < maxSteps
    /\ \E off \in RoundTripOffsets :
           /\ projection.kind = "Globe" => off = 0
           /\ cam_rt' \in round_trips(projection, off)
    /\ cam_steps' = cam_steps + 1
    /\ UNCHANGED <<simVars, cacheVars, gridVars, landVars, ix_call, ix_used,
                   cam_op, canvasVars, orientVars>>

---------------------------------------------------------------------------
(* src/braille/canvas.rs: a BrailleCanvas is [width, height, pixels] with  *)
(* the size in character cells and pixels the row-major sequence of the    *)
(* cells' bit patterns (index cy * width + cx, from 1 here).               *)

\* BIT_TABLE[y & 3][x & 1]
BIT_TABLE == <<<<0, 3>>, <<1, 4>>, <<2, 5>>, <<6, 7>>>>

\* bit k of byte b
bit_of(b, k) == (b \div (2 ^ k)) % 2

\* b | (1 << k)
or_bit(b, k) == IF bit_of(b, k) = 1 THEN b ELSE b + 2 ^ k

\* BrailleCanvas::new
canvas_new(width, height) ==
    [width |-> width, height |-> height,
     pixels |-> [i \in 1..(width * height) |-> 0]]

\* a bounds test that looks at the row only
in_canvas_rows_only(cv, cx, cy) == cy < cv.height

\* set_pixel goes on past its early return: cx < width and cy < height
in_canvas(cv, cx, cy) == cx < cv.width /\ cy < cv.height

\* BrailleCanvas::set_pixel; past the early return the index lies within
\* the Vec, which get_unchecked_mut relies on
set_pixel(cv, x, y) ==
    LET cx == x \div 2
        cy == y \div 4
        i == cy * cv.width + cx + 1
    IN IF ~in_canvas(cv, cx, cy) THEN cv
       ELSE IF i \in DOMAIN cv.pixels
       THEN [cv EXCEPT
               !.pixels[i] = or_bit(@, BIT_TABLE[(y % 4) + 1][(x % 2) + 1])]
       ELSE cv

\* BrailleCanvas::set_pixel_signed
set_pixel_signed(cv, x, y) ==
    IF x >= 0 /\ y >= 0 THEN set_pixel(cv, x, y) ELSE cv

\* the number of dots set on a canvas
dots(cv) ==
    Cardinality({c \in (DOMAIN cv.pixels) \X (0..7) :
                   bit_of(cv.pixels[c[1]], c[2]) = 1})

\* the canvas size of the machine, in character cells
CanvasWidth == 2

CanvasHeight == 2

InitCanvas ==
    /\ canvas = canvas_new(CanvasWidth, CanvasHeight)
    /\ cv_op = [name |-> "new", x |-> 0, y |-> 0, before |-> canvas]

\* set_pixel at every pixel of the canvas and in the column and the row
\* past its right and lower edge
CvSetPixel(maxDots) ==
    /\ dots(canvas) < maxDots
    /\ \E x \in 0..(2 * CanvasWidth), y \in 0..(4 * CanvasHeight) :
           /\ canvas' = set_pixel(canvas, x, y)
           /\ cv_op' = [name |-> "set_pixel", x |-> x, y |-> y,
                        before |-> canvas]
    /\ UNCHANGED <<simVars, cacheVars, gridVars, landVars, ix_call, ix_used,
                   camVars, orientVars>>

\* set_pixel_signed with a coordinate below zero, at the first pixel and
\* past the edges
CvSetPixelSigned(maxDots) ==
    /\ dots(canvas) < maxDots
    /\ \E x \in {-1, 0, 2 * CanvasWidth}, y \in {-1, 0, 4 * CanvasHeight} :
           /\ canvas' = set_pixel_signed(canvas, x, y)
           /\ cv_op' = [name |-> "set_pixel_signed", x |-> x, y |-> y,
                        before |-> canvas]
    /\ UNCHANGED <<simVars, cacheVars, gridVars, landVars, ix_call, ix_used,
                   camVars, orientVars>>

---------------------------------------------------------------------------
(* src/map/globe.rs: the GlobeViewport with its whole orientation.  A view *)
(* is [kind, forward, right, up, zoom, width, height]: the three columns   *)
(* of the rotation matrix, and the radius as the zoom field.  The turns of *)
(* this part are whole quarter turns, for which sin and cos are exact and  *)
(* the three vectors stay on the coordinate axes.                          *)

\* DVec3: sum, multiple and cross product
vec_add(a, b) == <<a[1] + b[1], a[2] + b[2], a[3] + b[3]>>

vec_scale(a, k) == <<a[1] * k, a[2] * k, a[3] * k>>

vec_cross(a, b) ==
    <<a[2] * b[3] - a[3] * b[2], a[3] * b[1] - a[1] * b[3],
      a[1] * b[2] - a[2] * b[1]>>

\* sin and cos of q quarter turns
quarter_sin(q) == CASE q % 4 = 1 -> 1 [] q % 4 = 3 -> -1 [] OTHER -> 0

quarter_cos(q) == CASE q % 4 = 0 -> 1 [] q % 4 = 2 -> -1 [] OTHER -> 0

\* GlobeViewport::new for a center given in quarter turns of longitude and
\* latitude
globe_new(lon, lat, zoom, width, height) ==
    LET forward == <<quarter_cos(lat) * quarter_cos(lon),
                     quarter_cos(lat) * quarter_sin(lon), quarter_sin(lat)>>
        raw_up == <<-quarter_sin(lat) * quarter_cos(lon),
                    -quarter_sin(lat) * quarter_sin(lon), quarter_cos(lat)>>
        right == vec_cross(forward, raw_up)
    IN [kind |-> "Globe", forward |-> forward, right |-> right,
        up |-> vec_cross(right, forward),
        zoom |-> zoom, width |-> width, height |-> height]

\* GlobeViewport::center_lonlat in degrees: asin(forward.z) and
\* atan2(forward.y, forward.x), which is 0 at the poles
center_lonlat(g) ==
    LET f == g.forward
        lon == CASE f[1] = 1 -> 0 [] f[2] = 1 -> 90 [] f[1] = -1 -> 180
                 [] f[2] = -1 -> -90 [] OTHER -> 0
    IN <<lon, 90 * f[3]>>

\* the first half of rotate_drag: the turn about the up axis
turn_about_up(g, q) ==
    IF q = 0 THEN g
    ELSE [g EXCEPT
            !.forward = vec_add(vec_scale(g.forward, quarter_cos(q)),
                                vec_scale(g.right, quarter_sin(q))),
            !.right = vec_add(vec_scale(g.right, quarter_cos(q)),
                              vec_scale(g.forward, -quarter_sin(q)))]

\* the second half of rotate_drag: the turn about the right axis
turn_about_right(g, q) ==
    IF q = 0 THEN g
    ELSE [g EXCEPT
            !.forward = vec_add(vec_scale(g.forward, quarter_cos(q)),
                                vec_scale(g.up, quarter_sin(q))),
            !.up = vec_add(vec_scale(g.up, quarter_cos(q)),
                           vec_scale(g.forward, -quarter_sin(q)))]

\* GlobeViewport::rotate_drag for a drag of tx and ty quarter turns:
\* angle_x = dx / radius, angle_y = -dy / radius
rotate_drag_turns(g, tx, ty) == turn_about_right(turn_about_up(g, tx), -ty)

\* what Projection::center_lon, center_lat and effective_zoom return for the
\* view, in the units of the cache key's input
globe_projection(g) ==
    [kind |-> "Globe", center_lon |-> center_lonlat(g)[1] * 10000,
     center_lat |-> center_lonlat(g)[2] * 10000, zoom |-> g.zoom,
     width |-> g.width, height |-> g.height]

\* the cache_key of render_globe
globe_cache_key(g, st) ==
    from_projection(globe_projection(g), cells_wide(g), cells_high(g), st)

\* MapRenderer::render_globe, the static layers: served from the slot when
\* the keys are equal, drawn for the view g and stored otherwise
render_globe(g, st, slot) ==
    LET cache_key == globe_cache_key(g, st)
        use_cache == slot.some /\ slot.key = cache_key
        fresh == rasterize(g, cells_wide(g), cells_high(g), st)
    IN IF use_cache
       THEN [cache |-> slot, layers |-> slot.layers, hit |-> TRUE]
       ELSE [cache |-> cache_store(cache_key, fresh), layers |-> fresh,
             hit |-> FALSE]

\* the globe a session starts from once the map is centered on 0, 0
GlobeStart ==
    globe_new(0, 0, 1000, SatSub(TermCols, 2) * 2, SatSub(TermRows, 3) * 4)

InitOrient ==
    /\ gl_view = GlobeStart
    /\ gl_slot = NoCache
    /\ gl_last = [some |-> FALSE]

\* one pass of the loop of run on the globe: the draw, then an event that
\* leaves the view next
GlPass(next) ==
    /\ LET r == render_globe(gl_view, DefaultSettings, gl_slot)
       IN /\ gl_slot' = r.cache
          /\ gl_last' = [some |-> TRUE, view |-> gl_view,
                         key |-> globe_cache_key(gl_view, DefaultSettings),
                         layers |-> r.layers, hit |-> r.hit]
    /\ gl_view' = next
    /\ UNCHANGED <<simVars, cacheVars, gridVars, landVars, ix_call, ix_used,
                   camVars, canvasVars>>

\* no event within the poll interval
GlIdle == GlPass(gl_view)

\* drags of a quarter turn along one axis or along both; one drag event
\* spans less than the screen, which is less than half a turn
QuarterDrags == {<<1, 0>>, <<-1, 0>>, <<0, 1>>, <<0, -1>>, <<1, 1>>, <<-1, -1>>}

GlDrag == \E t \in QuarterDrags : GlPass(rotate_drag_turns(gl_view, t[1], t[2]))

GlZoomIn(maxZoom) ==
    /\ gl_view.zoom < maxZoom
    /\ GlPass(globe_zoom_in(gl_view))

GlZoomOut(minZoom) ==
    /\ gl_view.zoom > minZoom
    /\ GlPass(globe_zoom_out(gl_view))

---------------------------------------------------------------------------
(* Specifications                                                          *)

\* bounds of the short simulation
MaxFrame == 31

MaxFireGroups == 2

MaxZoom == 1400

MinZoom == 1100

\* terminal cells clicked: the middle of the screen and its corner
Clicks == {<<40, 11>>, <<1, 1>>}

Points == {GeoLondon, GeoChannel, GeoAtlantic, GeoGermany}

Plans ==
    {[k |-> 0, a |-> SampleCenter, b |-> SampleCenter],
     [k |-> 1, a |-> SampleNear, b |-> SampleEdge]}

Init == InitSim /\ InitCache /\ InitGrids /\ InitLand /\ InitCamera /\ InitCanvas
            /\ InitOrient

Next ==
    \/ LaunchNuke(Clicks, Points, Plans)
    \/ Tick(MaxFrame, MaxFireGroups, 255)
    \/ ZoomIn(MaxZoom)
    \/ ZoomOut(MinZoom)
    \/ ToggleProjection

Spec == Init /\ [][Next]_vars


\* bounds of the long simulation: triggers only in the first frames, fires
\* spread only when about to fall to the spread threshold
MaxFrameLong == 1295

LastLaunchFrame == 16

MaxFireGroupsLong == 3

SpreadBelowLong == 62

PointsLong == {GeoLondon, GeoEastLondon}

NextLong ==
    \/ (frame <= LastLaunchFrame /\ LaunchNuke({<<40, 11>>}, PointsLong, Plans))
    \/ Tick(MaxFrameLong, MaxFireGroupsLong, SpreadBelowLong)

SpecLong == Init /\ [][NextLong]_vars

\* what every call of update_explosions does first, and no other operation
\* does: the frame counter advances
FrameAdvance(maxFrame) == frame < maxFrame /\ frame' = frame + 1

\* the long simulation with the main loop never ceasing to call
\* update_explosions
SpecLongFair == SpecLong /\ WF_frame(FrameAdvance(MaxFrameLong))

\* bounds of the trigger machine: the zoom levels up to 7.6 and the frames up
\* to the end of the first cooldown
MaxFrameTrigger == 16

MaxZoomTrigger == 8000

NextTrigger ==
    \/ LaunchNuke({<<40, 11>>}, Points, Plans)
    \/ Tick(MaxFrameTrigger, 0, 0)
    \/ ZoomIn(MaxZoomTrigger)

SpecTrigger == Init /\ [][NextTrigger]_vars

\* bounds of the barrage machine: clicks over the sea on every fifth frame,
\* for longer than an explosion lives
MaxFrameBarrage == 80

NextBarrage ==
    \/ (frame % 5 = 0 /\ LaunchNuke({<<40, 11>>}, {GeoAtlantic}, Plans))
    \/ Tick(MaxFrameBarrage, 0, 0)

SpecBarrage == Init /\ [][NextBarrage]_vars

\* bounds of the render cache machine
MaxRenders == 4

NextCache ==
    \/ PassIdle(MaxRenders)
    \/ PassPan(MaxRenders)
    \/ PassZoomIn(MaxRenders)
    \/ PassZoomOut(MaxRenders)
    \/ PassToggleProjection(MaxRenders)
    \/ PassToggleBorders(MaxRenders)
    \/ PassSpinning(MaxRenders)

\* the application as constructed, without a land grid
InitIdle ==
    InitSim /\ land_grid = NoLandGrid /\ InitCache /\ InitGrids /\ InitLand
    /\ InitCamera /\ InitCanvas /\ InitOrient

SpecCache == InitIdle /\ [][NextCache]_vars

\* the globe with its whole orientation, under drags and zoom keys
NextOrient ==
    \/ GlIdle
    \/ GlDrag
    \/ GlZoomIn(MaxZoom)
    \/ GlZoomOut(MinZoom)

SpecOrient == InitIdle /\ [][NextOrient]_vars

\* bound of the land grid machine
MaxPolygons == 2

NextLand ==
    \/ LgAddPolygon(MaxPolygons)
    \/ LgQuery

SpecLand == InitIdle /\ [][NextLand]_vars

NextIndex ==
    \/ LgAddPolygon(MaxPolygons)
    \/ LgQuery
    \/ IxRebuild
    \/ IxFiresInRegion
    \/ IxCityProbe

SpecIndex == InitIdle /\ [][NextIndex]_vars

\* bounds of the grid machines
MaxItems == 3

MaxFeatures == 2

NextSpatial ==
    \/ SgInsert(MaxItems)
    \/ SgQueryRadius
    \/ SgQueryBbox

SpecSpatial == InitIdle /\ [][NextSpatial]_vars

NextFeature ==
    \/ FgAddFeature(MaxFeatures)
    \/ FgQuery

SpecFeature == InitIdle /\ [][NextFeature]_vars

\* the camera operations and round trips of one run
MaxCamSteps == 3

NextCamera ==
    \/ CamPan(MaxCamSteps) \/ CamDrag(MaxCamSteps)
    \/ CamZoomIn(MaxCamSteps) \/ CamZoomOut(MaxCamSteps)
    \/ CamZoomInAt(MaxCamSteps) \/ CamZoomOutAt(MaxCamSteps)
    \/ CamToggle(MaxCamSteps) \/ CamResize(MaxCamSteps)
    \/ CamRoundTrip(MaxCamSteps)

SpecCamera == InitIdle /\ [][NextCamera]_vars

\* the dots one canvas takes
MaxDots == 2

NextCanvas == CvSetPixel(MaxDots) \/ CvSetPixelSigned(MaxDots)

SpecCanvas == InitIdle /\ [][NextCanvas]_vars

---------------------------------------------------------------------------
(* Properties of the simulation                                            *)

RECURSIVE lost_population(_)
\* what the cities have lost so far: the sum of original - current
lost_population(cs) ==
    IF cs = <<>> THEN 0
    ELSE Head(cs).original_population - Head(cs).population
         + lost_population(Tail(cs))

\* C1: across every trigger and every tick each city's population does not
\* grow and stays at or above zero.
C1_PopulationMonotone ==
    [][\A i \in DOMAIN cities :
          /\ cities'[i].population <= cities[i].population
          /\ cities'[i].population >= 0]_vars

\* a blast has taken more than a city had left (the subtraction saturated)
\* and ticks have since applied fire or fallout damage
C1_Witness ==
    /\ \E i \in DOMAIN cities : cities[i].population = 0
    /\ \E i \in DOMAIN cities :
          /\ cities[i].population > 0
          /\ cities[i].population < cities[i].original_population
    /\ casualties > lost_population(cities)
    /\ frame >= last_nuke_frame + 10

\* C2: accepted triggers are at least NUKE_COOLDOWN_FRAMES frames apart (each
\* leaves a fallout zone whose intensity counts down from 1000 by one per
\* frame), and while the cooldown runs a trigger changes nothing at all.
C2_Cooldown ==
    /\ \A i, j \in DOMAIN fallout :
          i < j => fallout[j].intensity - fallout[i].intensity >= NUKE_COOLDOWN_FRAMES
    /\ cooldown_active(frame, last_nuke_frame) =>
          \A c \in Clicks, g \in Points, p \in Plans :
              launch_nuke(App, c[1], c[2], g, p) = App

\* a trigger was accepted, frames have passed and the cooldown still runs
C2_Witness ==
    /\ fallout # <<>>
    /\ frame > last_nuke_frame
    /\ cooldown_active(frame, last_nuke_frame)

\* C3: every live fire has an intensity in 1..255.
C3_FireIntensityRange ==
    \A i \in DOMAIN fires :
        fires[i].n >= 1 /\ fires[i].intensity >= 1 /\ fires[i].intensity <= 255

\* all fires of a trigger, spawned at 200 or more, have decayed to 0 and are
\* gone
C3_Witness ==
    /\ last_nuke_frame > 0
    /\ casualties > 0
    /\ fires = <<>>
    /\ frame >= last_nuke_frame + 1000

\* a spread fire at the lowest intensity a spread can produce is live next to
\* its parent
C3_WitnessSpread ==
    \E i, j \in DOMAIN fires :
        fires[i].intensity = 61 /\ fires[j].intensity = 51

C5_FiresOnLand ==
    land_grid.built =>
        \A i \in DOMAIN fires : is_on_land(land_grid, fires[i].lon, fires[i].lat)

\* with a built land grid a trigger has spawned a fire and a spread has
\* added another one
C5_Witness ==
    /\ land_grid.built
    /\ Len(fires) = 2
    /\ fires[2].intensity = fires[1].intensity - 10

\* C6: a trigger whose pixel does not unproject leaves the whole state,
\* last_nuke_frame included, as it was.
C6_UnprojectableNoOp ==
    \A c \in Clicks, g \in Points, p \in Plans :
        ~proj_unproject(projection, SatSub(c[1], 1) * 2, SatSub(c[2], 1) * 4, g).some
            => launch_nuke(App, c[1], c[2], g, p) = App

\* the globe is shown, the cooldown of an earlier trigger is over, and a
\* click in the screen corner falls outside the disk
C6_Witness ==
    /\ projection.kind = "Globe"
    /\ fallout # <<>>
    /\ ~cooldown_active(frame, last_nuke_frame)
    /\ \E c \in Clicks :
          globe_outside_disk(projection, SatSub(c[1], 1) * 2, SatSub(c[2], 1) * 4)

---------------------------------------------------------------------------
(* Properties of the render cache                                          *)

\* the key of the view a render call is about to draw
CurrentKey ==
    from_projection(projection, cells_wide(projection), cells_high(projection),
                    settings)

\* C7: a render call whose key equals the key of the previous call returns
\* the rasters that call returned, is served from the slot and leaves the
\* slot as it was; a call that misses overwrites the slot with its key and
\* the freshly drawn rasters.
C7_SameKeyServedFromCache ==
    [][renders' = renders + 1 =>
          /\ (rendered.some /\ rendered.key = CurrentKey) =>
                /\ rendered'.hit
                /\ rendered'.layers = rendered.layers
                /\ cache' = cache
          /\ ~rendered'.hit =>
                /\ rendered'.layers =
                      rasterize(projection, cells_wide(projection),
                                cells_high(projection), settings)
                /\ cache' = [some |-> TRUE, key |-> CurrentKey,
                             layers |-> rendered'.layers]]_vars

\* the second of two render calls with one key was served from the slot: it
\* returned the rasters drawn for the first call's exact view, the camera
\* having moved inside the quantum
C7_Witness ==
    /\ rendered.some /\ rendered.hit
    /\ rendered.projection.kind = "Globe"
    /\ rendered.layers.coastlines.ink # <<rendered.projection>>

\* the camera has moved by more than the quantum since the view p: 0.001
\* degrees of center longitude or latitude, or 0.01 of effective zoom
moved_beyond_quantum(p, q) ==
    \/ Abs(q.center_lon - p.center_lon) > 10
    \/ Abs(q.center_lat - p.center_lat) > 10
    \/ Abs(effective_zoom(q) - effective_zoom(p)) > 10

\* C8: a render call after a camera move beyond the quantum has a different
\* key than the previous call and is not served from the slot.
C8_MoveInvalidates ==
    [][(renders' = renders + 1 /\ rendered.some
            /\ moved_beyond_quantum(rendered.projection, projection)) =>
          /\ rendered'.key # rendered.key
          /\ ~rendered'.hit]_vars

\* a move beyond the quantum away from zero was followed by a miss
C8_Witness ==
    /\ rendered.some /\ ~rendered.hit
    /\ rendered.projection.kind = "Globe"
    /\ rendered.projection.center_lon > 10
    /\ rendered.projection.center_lon < 20
    /\ cache.key.center_lon = 1

---------------------------------------------------------------------------
(* Properties of the grids                                                 *)

\* feature i (0-based) is among the results
fg_found(i) == i \in SeqToSet(fg_result)

\* C9: after a box query of the FeatureGrid every feature whose box
\* intersects the query box is among the results.
C9_NoFalseNegatives ==
    fg_query.kind = "box" =>
        \A i \in DOMAIN fg_boxes :
            boxes_intersect(fg_boxes[i], fg_query.box) => fg_found(i - 1)

\* a query touching lon = 180 has returned a feature that reaches the edge
\* from inside the domain
C9_Witness ==
    /\ fg_query.kind = "box"
    /\ fg_query.box[3] = 180
    /\ fg_result # <<>>

\* item i (0-based) is among the results
sg_found(i) == i \in SeqToSet(sg_result)

\* the point p lies within r of (lon, lat)
within_radius(p, lon, lat, r) ==
    (p[1] - lon) * (p[1] - lon) + (p[2] - lat) * (p[2] - lat) <= r * r

\* the point p lies in the closed rectangle
within_box(p, box) ==
    box[1] <= p[1] /\ p[1] <= box[3] /\ box[2] <= p[2] /\ p[2] <= box[4]

\* after a query every inserted item in range is among the results, and every
\* index filed in a cell denotes an item of that cell
sg_complete ==
    /\ sg_query.kind = "radius" =>
          \A i \in DOMAIN sgrid.items :
              within_radius(sgrid.items[i], sg_query.lon, sg_query.lat, sg_query.r)
                  => sg_found(i - 1)
    /\ sg_query.kind = "bbox" =>
          \A i \in DOMAIN sgrid.items :
              within_box(sgrid.items[i], sg_query.box) => sg_found(i - 1)
    /\ \A c \in DOMAIN sgrid.cells :
          \A k \in DOMAIN sgrid.cells[c] :
              /\ sgrid.cells[c][k] < Len(sgrid.items)
              /\ to_cell(sgrid.items[sgrid.cells[c][k] + 1][1],
                         sgrid.items[sgrid.cells[c][k] + 1][2],
                         sgrid.cell_size) = c

\* no step removes or moves an item: index i keeps denoting the same item
sg_stable ==
    /\ Len(sgrid'.items) >= Len(sgrid.items)
    /\ \A i \in DOMAIN sgrid.items : sgrid'.items[i] = sgrid.items[i]

\* C10: query_radius and query_bbox omit no inserted item in range, and the
\* indices are stable.
C10_NoOmission == []sg_complete /\ [][sg_stable]_vars

\* a radius query whose radius is not a whole number of cells has returned an
\* item of a neighbouring cell
C10_Witness ==
    /\ sg_query.kind = "radius"
    /\ sg_query.r % sgrid.cell_size # 0
    /\ \E i \in DOMAIN sgrid.items :
          /\ within_radius(sgrid.items[i], sg_query.lon, sg_query.lat, sg_query.r)
          /\ to_cell(sgrid.items[i][1], sgrid.items[i][2], sgrid.cell_size)
                # to_cell(sg_query.lon, sg_query.lat, sgrid.cell_size)
          /\ sg_found(i - 1)

---------------------------------------------------------------------------
(* Properties of the land grid                                             *)

\* the bit of the fine 0.1-degree cell containing the normalized coordinate
fine_bit(bitmap, lon, lat) ==
    ((normalize_lat(lat) \div 10) * LandGrid_WIDTH + normalize_lon(lon) \div 10)
        \in bitmap

\* C11: for a grid built by from_polygons, is_land answers for every
\* coordinate with the fine bit of the cell of the normalized coordinate; a
\* coarse cell is all-water or all-land only when its 100 fine cells agree.
C11_CoarseAgreesWithFine ==
    /\ lg_query.some =>
          lg_result = fine_bit(lgrid.bitmap, lg_query.lon, lg_query.lat)
    /\ \A c \in DOMAIN lgrid.coarse :
          lgrid.coarse[c] = 2 <=>
              \A p \in (0..9) \X (0..9) :
                  ((c \div 360) * 10 + p[1]) * LandGrid_WIDTH
                      + (c % 360) * 10 + p[2] \in lgrid.bitmap

\* a lookup in an all-land coarse cell beside a mixed one took the coarse
\* short cut and answered land
C11_Witness ==
    /\ Len(lg_polys) = 2
    /\ lg_query.some /\ lg_query.lon = -50 /\ lg_query.lat = 5150
    /\ lg_result
    /\ \E c \in DOMAIN lgrid.coarse : lgrid.coarse[c] = 1
    /\ \E c \in DOMAIN lgrid.coarse : lgrid.coarse[c] = 2

---------------------------------------------------------------------------
(* Properties of the grid indexes                                          *)

\* C12: every index FireGrid::rebuild, FireGrid::fires_in_region,
\* LandGrid::is_land and the 3x3 city probe use, for coordinates inside or
\* outside the world, lies within its array.
C12_IndexesInBounds ==
    \A u \in ix_used : 0 <= u[1] /\ u[1] < u[2]

\* a land lookup north of the pole read the last row of
\* the coarse tier
C12_Witness ==
    /\ ix_call = "is_land"
    /\ lg_query.some /\ lg_query.lat > 9000
    /\ \E u \in ix_used : u[1] \div 360 = 179

\* a region across the north-east corner of the world read the last cell
C12_WitnessRegion ==
    /\ ix_call = "fires_in_region"
    /\ \E u \in ix_used : u[1] = u[2] - 1

---------------------------------------------------------------------------
(* Properties of the camera                                                *)

\* C13: after a pan of the flat viewport (a pan key, a scroll, a drag) the
\* center longitude lies in [-180, 180] and the center latitude in [-85, 85],
\* for any pixel delta, zoom and width.
C13_PanKeepsCenterInRange ==
    (cam_op.name \in {"pan", "handle_drag"} /\ projection.kind = "Mercator") =>
        /\ -1800000 <= projection.center_lon
        /\ projection.center_lon <= 1800000
        /\ -850000 <= projection.center_lat
        /\ projection.center_lat <= 850000

\* a first drag east over sixty columns at zoom 1.0 that took the center
\* past +180 and wrapped it to the western half
C13_Witness ==
    /\ cam_op.name = "handle_drag"
    /\ cam_steps = 1
    /\ projection.kind = "Mercator"
    /\ projection.center_lon < -500000
    /\ projection.center_lon >= -1800000

\* C14: after any sequence of zooms, pans, resizes and flat/globe
\* conversions the flat zoom lies in [0.5, 100] and the globe radius in
\* [0.35 * width, 35 * width], that is the globe's radius / (0.35 * width)
\* in [1, 100].
C14_ZoomInRange ==
    /\ projection.kind = "Mercator" =>
           (500 <= projection.zoom /\ projection.zoom <= 100000)
    /\ projection.kind = "Globe" =>
           (1000 <= projection.zoom /\ projection.zoom <= 100000)

\* the flat zoom held at 0.5 by the clamp of a zoom_out
C14_Witness ==
    /\ cam_op.name = "zoom_out"
    /\ projection.kind = "Mercator"
    /\ projection.zoom = 500

\* C15: zoom_in_at followed by zoom_out_at at the same pixel leaves the
\* camera within epsilon of the camera before the pair: the same variant,
\* the zoom within 0.002 and the center within 0.01 degrees.
C15_ZoomAtRoundTrip ==
    (cam_op.name = "zoom_out_at" /\ cam_op.paired) =>
        /\ projection.kind = cam_op.before.kind
        /\ Abs(projection.zoom - cam_op.before.zoom) <= 2
        /\ Abs(projection.center_lon - cam_op.before.center_lon) <= 100
        /\ Abs(projection.center_lat - cam_op.before.center_lat) <= 100

\* a completed pair on the flat viewport that brought the zoom back
C15_Witness ==
    /\ cam_op.name = "zoom_out_at"
    /\ cam_op.paired
    /\ projection.kind = "Mercator"
    /\ Abs(projection.zoom - cam_op.before.zoom) <= 2

\* C16: unproject(project(p)) is p for a point p in the visible region, and
\* the center projects to the pixel (width / 2, height / 2).
C16_ProjectUnprojectRoundTrip ==
    (cam_rt.some /\ 0 <= cam_rt.px /\ cam_rt.px < projection.width) =>
        /\ cam_rt.back = cam_rt.lon
        /\ cam_rt.lon = projection.center_lon =>
               /\ 2 * cam_rt.px = projection.width
               /\ 2 * cam_rt.py = projection.height

\* a round trip of the center after the camera has moved
C16_Witness ==
    /\ cam_rt.some
    /\ cam_steps > 0
    /\ cam_rt.lon = projection.center_lon
    /\ cam_rt.lon # 0
    /\ cam_rt.back = cam_rt.lon
    /\ 2 * cam_rt.px = projection.width

---------------------------------------------------------------------------
(* Properties of the braille canvas                                        *)

\* the dot masks of a braille character by (y mod 4, x mod 2), from the
\* layout set_pixel documents
DOT_MASK == <<<<1, 8>>, <<2, 16>>, <<4, 32>>, <<64, 128>>>>

\* the call of cv_op addressed a pixel of the canvas
cv_on_canvas ==
    /\ cv_op.x >= 0
    /\ cv_op.y >= 0
    /\ cv_op.x < 2 * canvas.width
    /\ cv_op.y < 4 * canvas.height

\* C17: set_pixel(x, y) sets the one dot bit of (x mod 2, y mod 4) in cell
\* (x div 2, y div 4) and leaves every other bit of every cell as it was; a
\* bit that was set stays set; a coordinate off the canvas, or a negative
\* one given to set_pixel_signed, changes nothing.
C17_SetPixelFrame ==
    cv_op.name # "new" =>
        /\ canvas.width = cv_op.before.width
        /\ canvas.height = cv_op.before.height
        /\ DOMAIN canvas.pixels = DOMAIN cv_op.before.pixels
        /\ \A i \in DOMAIN canvas.pixels : \A k \in 0..7 :
               bit_of(canvas.pixels[i], k) =
                   IF /\ cv_on_canvas
                      /\ i = (cv_op.y \div 4) * canvas.width + cv_op.x \div 2 + 1
                      /\ 2 ^ k = DOT_MASK[(cv_op.y % 4) + 1][(cv_op.x % 2) + 1]
                   THEN 1
                   ELSE bit_of(cv_op.before.pixels[i], k)

\* a dot added to a cell that already held another dot
C17_Witness ==
    /\ cv_op.name = "set_pixel"
    /\ cv_on_canvas
    /\ \E i \in DOMAIN canvas.pixels :
           /\ cv_op.before.pixels[i] # 0
           /\ canvas.pixels[i] > cv_op.before.pixels[i]

\* a call past the right edge that changed nothing on a canvas with a dot
C17_WitnessOutside ==
    /\ cv_op.name = "set_pixel"
    /\ cv_op.x >= 2 * canvas.width
    /\ cv_op.y < 4 * canvas.height
    /\ dots(canvas) > 0
    /\ canvas = cv_op.before

\* a call of set_pixel_signed with a negative coordinate
C17_WitnessSigned ==
    /\ cv_op.name = "set_pixel_signed"
    /\ cv_op.x < 0
    /\ dots(canvas) > 0
    /\ canvas = cv_op.before

---------------------------------------------------------------------------
(* Properties of the tick: explosions, fallout and the damage cadence      *)

\* the explosions one tick later: every counter one higher, the ones at 60
\* gone, order, position and radius as before
explosions_after_tick(exps) ==
    LET aged == [i \in DOMAIN exps |-> [exps[i] EXCEPT !.frame = @ + 1]]
        live(e) == e.frame # 60
    IN SelectSeq(aged, live)

\* C18: every live explosion has a frame counter in 0..59; a trigger appends
\* one with counter 0; a tick raises every counter by exactly 1, removes the
\* explosions that reach 60 and changes no position or radius.
C18_ExplosionLifetime ==
    [][/\ \A i \in DOMAIN explosions' :
              explosions'[i].frame >= 0 /\ explosions'[i].frame <= 59
       /\ frame' = frame + 1 => explosions' = explosions_after_tick(explosions)
       /\ frame' = frame =>
              \/ explosions' = explosions
              \/ /\ Len(explosions') = Len(explosions) + 1
                 /\ SubSeq(explosions', 1, Len(explosions)) = explosions
                 /\ explosions'[Len(explosions')].frame = 0]_vars

\* an explosion in its last frame, 59 ticks after its trigger
C18_Witness ==
    /\ \E i \in DOMAIN explosions : explosions[i].frame = 59
    /\ frame = last_nuke_frame + 59

\* the 60th tick after the only trigger has removed its explosion, whose
\* fallout is still live
C18_WitnessRemoved ==
    /\ explosions = <<>>
    /\ Len(fallout) = 1
    /\ frame = last_nuke_frame + 60

\* the fallout zones one tick later: every intensity one lower, the zones at
\* 0 gone, order, position and radius as before
fallout_after_tick(zones) ==
    LET decayed == [i \in DOMAIN zones |-> [zones[i] EXCEPT !.intensity = @ - 1]]
        live(z) == z.intensity # 0
    IN SelectSeq(decayed, live)

\* C19: every live fallout zone has an intensity in 1..1000; a trigger
\* appends one with intensity 1000 and twice the radius of its explosion; a
\* tick lowers every intensity by exactly 1 and removes the zones that reach 0.
C19_FalloutLifetime ==
    [][/\ \A i \in DOMAIN fallout' :
              fallout'[i].intensity >= 1 /\ fallout'[i].intensity <= 1000
       /\ frame' = frame + 1 => fallout' = fallout_after_tick(fallout)
       /\ frame' = frame =>
              \/ fallout' = fallout
              \/ /\ Len(fallout') = Len(fallout) + 1
                 /\ SubSeq(fallout', 1, Len(fallout)) = fallout
                 /\ fallout'[Len(fallout')].intensity = 1000
                 /\ Len(explosions') = Len(explosions) + 1
                 /\ fallout'[Len(fallout')].radius_km =
                        2 * explosions'[Len(explosions')].radius_km]_vars

\* a zone at intensity 1, 999 ticks after its trigger
C19_Witness ==
    /\ \E i \in DOMAIN fallout : fallout[i].intensity = 1
    /\ frame >= 999

\* the 1000th tick after the last trigger has removed the last zone
C19_WitnessRemoved ==
    /\ fallout = <<>>
    /\ casualties > 0
    /\ frame = last_nuke_frame + 1000

\* C20: a tick whose frame counter after the increment is not a multiple of
\* 10 leaves every city's population and the casualty total unchanged.
C20_DamageCadence ==
    [][(frame' = frame + 1 /\ frame' % 10 # 0) =>
           (cities' = cities /\ casualties' = casualties)]_vars

\* between two damage ticks with fires burning and a fallout zone live over
\* cities that have people left
C20_Witness ==
    /\ frame % 10 = 5
    /\ frame > last_nuke_frame
    /\ fires # <<>>
    /\ fallout # <<>>
    /\ casualties > 0
    /\ \E i \in DOMAIN cities :
           /\ cities[i].population > 0
           /\ cities[i].population < cities[i].original_population

---------------------------------------------------------------------------
(* Properties of the fires                                                 *)

\* the highest intensity among the fire groups fs, 0 for none
max_intensity(fs) ==
    LET vals == {fs[i].intensity : i \in DOMAIN fs} \cup {0}
    IN CHOOSE v \in vals : \A w \in vals : w <= v

\* the fires present before a tick as the tick leaves them: one lower when
\* the new frame counter is a multiple of 5, the ones at 0 gone
fires_after_decay(fs, fr) ==
    LET d == IF fr % 5 = 0 THEN 1 ELSE 0
        aged == [i \in DOMAIN fs |-> [fs[i] EXCEPT !.intensity = @ - d]]
        live(f) == f.intensity > 0
    IN SelectSeq(aged, live)

\* C21: a tick lowers the intensity of every existing fire by exactly 1 when
\* the frame counter is a multiple of 5 and leaves it unchanged otherwise;
\* every fire a tick adds has the intensity of a parent above 60 minus 10;
\* the maximum intensity over the live fires does not grow in a tick.
C21_FireIntensityNeverGrows ==
    [][frame' = frame + 1 =>
          LET old == fires_after_decay(fires, frame')
          IN /\ Len(old) <= Len(fires')
             /\ SubSeq(fires', 1, Len(old)) = old
             /\ \A j \in (Len(old) + 1)..Len(fires') :
                    \E i \in DOMAIN old :
                        /\ old[i].intensity > 60
                        /\ fires'[j].intensity = old[i].intensity - 10
             /\ max_intensity(fires') <= max_intensity(fires)]_vars

\* a parent at 62 with the child it has just spawned at 52, in a tick without
\* decay
C21_Witness ==
    /\ frame % 5 # 0
    /\ frame > last_nuke_frame
    /\ \E i, j \in DOMAIN fires :
           /\ i < j
           /\ fires[i].intensity = 62
           /\ fires[j].intensity = 52

---------------------------------------------------------------------------
(* Properties of the blast damage                                          *)

\* the step is an accepted trigger: it has appended an explosion
trigger_accepted == Len(explosions') = Len(explosions) + 1

RECURSIVE blast_toll(_, _, _, _, _)
\* what a blast at (lon, lat) adds to the casualties for the cities cs other
\* than the one at index skip, each taken as it stands before the trigger
blast_toll(cs, lon, lat, radius_km, skip) ==
    IF cs = <<>> THEN 0
    ELSE LET n == Len(cs)
             city == cs[n]
             dist == fast_distance_km(lon, lat, city.lon, city.lat)
             part == IF n # skip /\ city.population # 0
                        /\ dist < radius_km + city.radius_km
                     THEN blast_killed(city, dist, radius_km) ELSE 0
         IN part + blast_toll(SubSeq(cs, 1, n - 1), lon, lat, radius_km, skip)

\* C22: an accepted trigger whose blast center lies inside the footprint of a
\* living city (nearer to its center than its radius_km) leaves that city
\* with population 0 and adds exactly the population it had to the casualty
\* total, next to what the other cities in reach add.
C22_FootprintTotalLoss ==
    [][trigger_accepted =>
          LET e == explosions'[Len(explosions')]
          IN \A i \in DOMAIN cities :
                 (/\ cities[i].population > 0
                  /\ fast_distance_km(e.lon, e.lat, cities[i].lon, cities[i].lat)
                         < cities[i].radius_km) =>
                     /\ cities'[i].population = 0
                     /\ casualties' = casualties + cities[i].population
                            + blast_toll(cities, e.lon, e.lat, e.radius_km, i)]_vars

\* London, struck at its center while it still had all its people, is empty
\* and the casualty total holds at least its population
C22_Witness ==
    /\ Len(explosions) = 1
    /\ explosions[1].lon = cities[1].lon
    /\ explosions[1].lat = cities[1].lat
    /\ cities[1].population = 0
    /\ casualties >= cities[1].original_population
    /\ frame = last_nuke_frame


\* the 0-based indices that apply_blast_damage gets from the city grid for a
\* blast at (lon, lat)
blast_candidates(cs, lon, lat, radius_km) ==
    SeqToSet(query_radius(city_grid(cs), lon, lat, (radius_km + 50) * 100, 111))

\* C23: on an accepted trigger every living city nearer to the blast center
\* than blast radius + city radius is among the candidates of the spatial
\* query and has the damage formula applied to it.
C23_NoOverlappingCityMissed ==
    [][trigger_accepted =>
          LET e == explosions'[Len(explosions')]
          IN \A i \in DOMAIN cities :
                 LET dist == fast_distance_km(e.lon, e.lat,
                                              cities[i].lon, cities[i].lat)
                 IN (/\ cities[i].population > 0
                     /\ dist < e.radius_km + cities[i].radius_km) =>
                        /\ (i - 1) \in blast_candidates(cities, e.lon, e.lat,
                                                        e.radius_km)
                        /\ cities'[i].population =
                               pop_sub(cities[i].population,
                                       blast_killed(cities[i], dist, e.radius_km))]_vars

\* a blast of radius 750 km at 10.00 E, 51.50 N has London, 699 km away, in
\* reach and leaves it untouched
C23_Witness ==
    /\ Len(explosions) = 1
    /\ frame = last_nuke_frame
    /\ explosions[1].lon = GeoGermany[1]
    /\ explosions[1].lat = GeoGermany[2]
    /\ explosions[1].radius_km = 750
    /\ fast_distance_km(GeoGermany[1], GeoGermany[2], cities[1].lon, cities[1].lat)
           < 750 + cities[1].radius_km
    /\ cities[1].population = cities[1].original_population
    /\ cities[1].population > 0


---------------------------------------------------------------------------
(* Properties of the trigger                                               *)

\* the step is a launch_nuke call that changed the simulation
trigger_took_effect ==
    /\ frame' = frame
    /\ projection' = projection
    /\ <<last_nuke_frame, explosions, fires, fallout, cities, casualties>>'
           # <<last_nuke_frame, explosions, fires, fallout, cities, casualties>>

\* min(20000, floor(pi * r^2 / 5) + 200), with pi as 355 / 113
fire_target_of(r) ==
    LET t == (r * r * 355) \div (113 * 5) + 200
    IN IF t > 20000 THEN 20000 ELSE t

\* C24: an accepted trigger at effective zoom z uses the blast radius
\* r = 50 + 700 / z and the fire target T = min(20000, floor(pi r^2 / 5) + 200)
\* (750 km and 20000 at zoom 1, 120 km and 9247 at zoom 10); its rejection
\* loop adds at most T fires in at most 2 T attempts; and the call creates
\* exactly one Explosion and one Fallout, also when no sample is on land.
C24_TriggerBudget ==
    [][trigger_took_effect =>
          LET z == effective_zoom(projection)
              r == 50 + 700000 \div z
              T == fire_target_of(r)
              e == explosions'[Len(explosions')]
              f == fallout'[Len(fallout')]
          IN /\ Len(explosions') = Len(explosions) + 1
             /\ SubSeq(explosions', 1, Len(explosions)) = explosions
             /\ Len(fallout') = Len(fallout) + 1
             /\ SubSeq(fallout', 1, Len(fallout)) = fallout
             /\ e.radius_km = r
             /\ f.lon = e.lon /\ f.lat = e.lat
             /\ blast_radius_km(projection) = r
             /\ target_fires(r) = T
             /\ z = 1000 => (r = 750 /\ T = 20000)
             /\ blast_radius_km([projection EXCEPT !.kind = "Mercator",
                                                   !.zoom = 10000]) = 120
             /\ target_fires(120) = 9247
             /\ fires_len(fires') - fires_len(fires) <= T
             /\ \A p \in Plans :
                    /\ spawn_attempts(land_grid, e.lon, e.lat, r, T, p) <= 2 * T
                    /\ fires_len(spawn_fires(land_grid, e.lon, e.lat, r, T, p)) <= T]_vars

\* a trigger over the sea: one explosion, one fallout zone and no fire
C24_Witness ==
    /\ land_grid.built
    /\ frame = last_nuke_frame
    /\ Len(explosions) = 1
    /\ Len(fallout) = 1
    /\ explosions[1].lon = GeoAtlantic[1]
    /\ fires = <<>>

\* a trigger on land at zoom 7.6: the target is below the cap and all of it
\* is spawned
C24_WitnessBelowCap ==
    /\ frame = last_nuke_frame
    /\ Len(explosions) = 1
    /\ explosions[1].radius_km < 177
    /\ fires_len(fires) = fire_target_of(explosions[1].radius_km)
    /\ fires_len(fires) < 20000

\* a trigger on land at zoom 1: 20000 fires
C24_WitnessCapped ==
    /\ frame = last_nuke_frame
    /\ Len(explosions) = 1
    /\ explosions[1].radius_km = 750
    /\ fires_len(fires) = 20000


---------------------------------------------------------------------------
(* Properties of the casualty total                                        *)

\* C25: after any sequence of triggers and ticks the casualty total equals
\* the sum over all cities of original_population - population.
C25_CasualtiesMatchLoss == casualties = lost_population(cities)

\* after one trigger the casualty total exceeds the number of people the
\* cities ever had
C25_Witness ==
    /\ Len(explosions) = 1
    /\ frame = last_nuke_frame
    /\ \A i \in DOMAIN cities : cities[i].population = 0
    /\ casualties > lost_population(cities)


---------------------------------------------------------------------------
(* Properties of the fire damage                                           *)

\* some fire of fs burns above 50 in the 3x3 block of fine-grid cells around
\* the city
burning_near(fs, city) ==
    fire_cells_near(FireGridFine, rebuild(FireGridFine, fs), city.lon, city.lat) > 0

\* the cities after the fire damage of the coming tick, before its fallout
\* damage
after_fire_damage ==
    apply_fire_damage_to_cities([cities |-> cities, casualties |-> casualties],
                                fire_grid_fine).cities

---------------------------------------------------------------------------
(* Properties of the acceptance of triggers                                *)

\* no trigger was accepted during the preceding NUKE_COOLDOWN_FRAMES frames:
\* every fallout zone, created at 1000 by its trigger and counted down by one
\* per frame, is at least that old
no_recent_trigger ==
    \A i \in DOMAIN fallout : 1000 - fallout[i].intensity >= NUKE_COOLDOWN_FRAMES

\* launch_nuke at cell c with the point g under it is accepted
launch_accepted(c, g, p) ==
    Len(launch_nuke(App, c[1], c[2], g, p).explosions) = Len(explosions) + 1

\* C27: a launch_nuke at a projectable point is accepted whenever no trigger
\* has been accepted during the preceding 15 frames; in particular the first
\* trigger of a session is accepted at whatever frame it occurs.
C27_AcceptedOutsideCooldown ==
    no_recent_trigger =>
        \A c \in Clicks, g \in Points, p \in Plans :
            proj_unproject(projection, SatSub(c[1], 1) * 2, SatSub(c[2], 1) * 4, g).some
                => launch_accepted(c, g, p)

\* fourteen frames into a session without any trigger, a click on the map
\* changes nothing
C27_Witness ==
    /\ frame = NUKE_COOLDOWN_FRAMES - 1
    /\ last_nuke_frame = 0
    /\ fallout = <<>>
    /\ explosions = <<>>
    /\ casualties = 0
    /\ projection.kind = "Mercator"
    /\ \A p \in Plans : launch_nuke(App, 40, 11, GeoLondon, p) = App


---------------------------------------------------------------------------
(* Properties of the end of the simulation                                 *)

\* nothing is left to animate
quiet == explosions = <<>> /\ fires = <<>> /\ fallout = <<>>

\* C28: if ticks continue and no further trigger is accepted, then after
\* finitely many ticks the explosions, the fires and the fallout are all
\* empty for good; a tick from such a state leaves them empty, returns false
\* and changes no city's population and not the casualty total.
C28_Quiescence ==
    /\ <>[]quiet
    /\ [][(quiet /\ frame' = frame + 1) =>
              /\ quiet'
              /\ ~update_explosions_returns(update_explosions(App, NoSpread))
              /\ cities' = cities
              /\ casualties' = casualties]_vars

\* a trigger was accepted and everything it created has burnt out
C28_Witness ==
    /\ quiet
    /\ last_nuke_frame >= NUKE_COOLDOWN_FRAMES
    /\ casualties > 0
    /\ fire_grid_fine = <<>>


---------------------------------------------------------------------------
(* Properties of the number of explosions                                  *)

\* C29: at most 4 explosions are live at any time, after any sequence of
\* triggers and ticks.
C29_AtMostFourExplosions == Len(explosions) <= 4

\* four explosions are live, the oldest on its last frame
C29_Witness ==
    /\ Len(explosions) = 4
    /\ explosions[1].frame = 59

\* a fifth trigger has been accepted on the frame that removed the first
\* explosion
C29_WitnessFifth ==
    /\ Len(explosions) = 4
    /\ Len(fallout) = 5
    /\ explosions[4].frame = 0
    /\ frame = last_nuke_frame


---------------------------------------------------------------------------
(* Properties of the cache key on the globe                                *)

\* two views look at the same center with the same zoom and size
same_center_and_zoom(a, b) ==
    /\ center_lonlat(a) = center_lonlat(b)
    /\ a.zoom = b.zoom
    /\ a.width = b.width /\ a.height = b.height

\* two views are turned against each other about the viewing axis
turned_about_axis(a, b) == a.forward = b.forward /\ a.up # b.up

\* C30: whenever render serves the static layers from the cache, they are
\* the rasters of the current view; and two orientations of the globe with
\* the same center and zoom that differ by a rotation about the viewing
\* axis never share a cache key.
C30_KeyTellsOrientationsApart ==
    /\ (gl_last.some /\ gl_last.hit) =>
           gl_last.layers = rasterize(gl_last.view, cells_wide(gl_last.view),
                                      cells_high(gl_last.view), DefaultSettings)
    /\ (same_center_and_zoom(GlobeStart, gl_view)
            /\ turned_about_axis(GlobeStart, gl_view)) =>
           globe_cache_key(GlobeStart, DefaultSettings)
               # globe_cache_key(gl_view, DefaultSettings)

\* three drags have brought the globe back to its first center, a quarter
\* turn about the viewing axis away from its first orientation, and the key
\* is that of the first view
C30_Witness ==
    /\ gl_last.some
    /\ same_center_and_zoom(GlobeStart, gl_view)
    /\ gl_view.up = GlobeStart.right
    /\ globe_cache_key(gl_view, DefaultSettings)
           = globe_cache_key(GlobeStart, DefaultSettings)
    /\ gl_slot.some
    /\ gl_slot.key # globe_cache_key(gl_view, DefaultSettings)

=============================================================================
